---- MODULE Spec2Model ----
(***************************************************************************)
(* Moderation pipeline and violation ledger of the teacher bot.            *)
(*                                                                         *)
(*   moderator.py         Moderator: check_triggers, moderate_with_ai,     *)
(*                        moderate_message                                 *)
(*   moderation_rules.py  ModerationRules: check_word, check_combination   *)
(*   database.py          Database: users / violations tables              *)
(*   handlers.py          process_message, process_api_key                 *)
(*                                                                         *)
(* Strings are sequences of one-character strings.  The Russian literals   *)
(* of the f-strings are rendered in ASCII; a formatted string is the       *)
(* concatenation of its literal chunks (one element each) with the         *)
(* characters of the interpolated values.  Python None is the empty        *)
(* sequence None; SQL NULL in a timestamp column is Null.  Time is counted *)
(* in minutes.                                                             *)
(***************************************************************************)
EXTENDS Integers, Sequences, FiniteSets, TLC

VARIABLES
    now,                  \* datetime.now(), in minutes
    has_last_violation_date,  \* schema of table users: column last_violation_date exists
    users,                \* table users: user_id -> row, or NoRow
    violations,           \* table violations, in insertion order
    gemini_failures,      \* Moderator.gemini_failures
    deepseek_failures,    \* Moderator.deepseek_failures
    task,                 \* the process_message coroutines: position and locals
    last,                 \* what the most recently finished process_message did
    time,                 \* time.time(), in seconds
    requests,             \* RateLimiter.requests: user_id -> list of <<ts, count>>
    limiter_violations,   \* RateLimiter.violations: user_id -> count
    last_check,           \* what the most recent on_pre_process_message did
    rules,                \* ModerationRules.rules, the rule set in memory
    rules_file,           \* the file moderation_rules.json
    rule_call,            \* the most recent call on ModerationRules
    cache,                \* Cache._cache, the entries in the dict's order
    cache_call            \* the most recent call on the Cache

\* The state of the rate-limit middleware
limiter_vars == <<time, requests, limiter_violations, last_check>>

\* The state of the message handlers
handler_vars == <<now, has_last_violation_date, users, violations,
                  gemini_failures, deepseek_failures, task, last>>

\* The state of the rule set
rule_vars == <<rules, rules_file, rule_call>>

\* The state of the response cache
cache_vars == <<cache, cache_call>>

vars == <<handler_vars, limiter_vars, rule_vars, cache_vars>>

----------------------------------------------------------------------------
(* Bounds of the model *)

MaxTime == 1700
MaxViolations == 7
MaxClock == 121
MaxDenials == 2
MaxFrameClock == 60
MaxRecorded == 2
MaxOtherRequests == 1
MaxIsolationTime == 6
MaxAnswerTime == 3601
CacheSize == 3
CacheTtl == 2
MaxCacheTime == 3
MaxLedger == 3
MaxCleanerTime == 131042

----------------------------------------------------------------------------
(* Values *)

None == <<>>
Null == 0 - 1
NoRow == [exists |-> FALSE]

Users == {1, 2, 3}
Admins == {2}
Tasks == {1, 2}

\* is_admin recognising nobody
is_admin_nobody(user_id) == FALSE

\* utils.is_admin: user_id is listed in ADMIN_IDS
is_admin(user_id) == user_id \in Admins

----------------------------------------------------------------------------
(* Strings *)

\* "U0130" is LATIN CAPITAL LETTER I WITH DOT ABOVE and "U0307" is COMBINING
\* DOT ABOVE
UpperChars == {"O", "K", "D", "H", "W", "U0130"}

\* str.lower() of one character: a string, of two characters for U+0130
lower_char(c) ==
    CASE c = "O" -> <<"o">>
      [] c = "K" -> <<"k">>
      [] c = "D" -> <<"d">>
      [] c = "H" -> <<"h">>
      [] c = "W" -> <<"w">>
      [] c = "U0130" -> <<"i", "U0307">>
      [] OTHER -> <<c>>

\* str.lower(): the characters' lowercase strings, concatenated
RECURSIVE lower(_)
lower(s) ==
    IF s = <<>> THEN <<>>
    ELSE IF Len(s) = 1 THEN lower_char(s[1])
    ELSE lower(SubSeq(s, 1, Len(s) \div 2)) \o lower(SubSeq(s, Len(s) \div 2 + 1, Len(s)))

isupper(c) == c \in UpperChars

\* needle in hay
contains(hay, needle) ==
    \E i \in 0..(Len(hay) - Len(needle)) :
        SubSeq(hay, i + 1, i + Len(needle)) = needle

\* str.split(): the maximal runs of non-whitespace characters, in order
split(s) ==
    LET starts == {i \in 1..Len(s) : s[i] # " " /\ (i = 1 \/ s[i - 1] = " ")}
        end(i) == CHOOSE j \in i..Len(s) :
                      /\ \A n \in i..j : s[n] # " "
                      /\ (j = Len(s) \/ s[j + 1] = " ")
        start(k) == CHOOSE i \in starts : Cardinality({j \in starts : j <= i}) = k
    IN  [k \in 1..Cardinality(starts) |-> SubSeq(s, start(k), end(start(k)))]

\* str(x) inside an f-string
format(x) == IF x = None THEN <<"None">> ELSE x

----------------------------------------------------------------------------
(* The rule document (moderation_rules.json).  A dict is a record of its    *)
(* values with the set of its keys; the value of an absent key is empty,   *)
(* which is what rules.get(key, default) reads.  The categories of         *)
(* stop_words are kept in the dict's order.                                *)

RuleKeys == {"stop_words", "word_combinations", "spam_patterns"}

RuleDocument ==
    [keys |-> RuleKeys,
     stop_words |->
        << [category |-> "insult",
            words |-> << <<"b","a","d">>, <<"f","o","o","l">> >>,
            severity |-> "high"],
           [category |-> "slang",
            words |-> << <<"a","b">>, <<"f","o","o","l","s">> >>,
            severity |-> "low"] >>,
     word_combinations |->
        << [words |-> << <<"d","o">>, <<"h","w">> >>,
            category |-> "cheating", severity |-> "medium"],
           [words |-> << <<"b","u","y">>, <<"n","o","w">> >>,
            category |-> "ads", severity |-> "low"] >>,
     spam_patterns |->
        << [pattern |-> <<"w","w">>, description |-> "link"],
           [pattern |-> <<"x","x">>, description |-> "phone"] >>]

\* The dict {}
EmptyRules ==
    [keys |-> {}, stop_words |-> <<>>, word_combinations |-> <<>>,
     spam_patterns |-> <<>>]

\* What moderation_rules.json can be: absent, not JSON, JSON that is not a
\* dict of rules (a list, say), or the rule document
RuleFile(kind, doc) == [kind |-> kind, doc |-> doc]

\* The JSON document [], and the content of a file that holds no JSON value
ListDocument == [list |-> <<>>]
NoDocument == [text |-> <<"{", "b", "a", "d">>]

DocumentFile == RuleFile("rules", RuleDocument)
MissingFile == RuleFile("missing", NoDocument)
InvalidJsonFile == RuleFile("invalid json", NoDocument)
NotADictFile == RuleFile("not a dict", ListDocument)

\* ModerationRules._load_rules: {} for an absent file and for any exception
\* of open or json.load; otherwise what json.load returned
load_rules(file) ==
    IF file.kind \in {"missing", "invalid json"} THEN EmptyRules ELSE file.doc

\* ModerationRules.__init__ raises: _init_stop_words calls .get and .items
\* on what json.load returned and reads data['words']
init_raises(file) == file.kind = "not a dict"

NoRuleCall == [op |-> "__init__", args |-> <<>>, raised |-> FALSE, saved |-> FALSE]

Messages ==
    { <<"o","k">>,
      <<"O","K">>,
      <<"f","o","o","l">>,
      <<"d","o"," ","h","w">>,
      <<"w","w">> }

\* The texts of the local filter: words at the length gate, words inside and
\* around stop words, the combinations in each order and letter case, texts
\* that several checks flag, and texts at the length trigger
LongText == [i \in 1..501 |-> "a"]
LongCaps == [i \in 1..501 |-> "O"]
FullText == [i \in 1..500 |-> "a"]

FilterMessages ==
    {
      <<"o","k">>,
      <<"O","K">>,
      <<"b","a","d">>,
      <<"f","o","o","l">>,
      <<"f","o","o","l","s">>,
      <<"o","o","l","s">>,
      <<"o","o","l">>,
      <<"c","a","b">>,
      <<"c","a","b","s">>,
      <<"U0130","a","b">>,
      <<"U0130","a">>,
      <<"d","o"," ","h","w">>,
      <<"h","w"," ","d","o">>,
      <<"D","O"," ","H","W">>,
      <<"d","o"," ","o","k"," ","h","w">>,
      <<"u","n","d","o"," ","h","w">>,
      <<"d","o">>,
      <<"h","w">>,
      <<"b","u","y"," ","n","o","w">>,
      <<"d","o"," ","h","w"," ","b","u","y"," ","n","o","w">>,
      <<"b","u","y"," ","n","o","w"," ","d","o"," ","h","w">>,
      <<"d","o"," ","b","u","y">>,
      <<"d","o"," ","b","u","y"," ","n","o","w">>,
      <<"d","o"," ","h","w"," ","f","o","o","l">>,
      <<"f","o","o","l"," ","w","w">>,
      <<"o","k"," ","f","o","o","l"," ","c","a","b","s">>,
      <<"w","w">>,
      <<"x","x"," ","w","w">>,
      <<"x","x">>,
      <<"W","W">>,
      <<"w","w"," ","O","K","O","K">>,
      <<"F","O","O","L">>,
      <<"O","k">>,
      LongText, LongCaps, FullText }

----------------------------------------------------------------------------
(* moderation_rules.py *)

word_hits(word, stop_word) ==
    (contains(word, stop_word) \/ contains(stop_word, word)) /\ Len(word) > 3

\* ModerationRules.check_word: <<found, category>>
check_word(word0) ==
    LET word == lower(word0)
        cats == rules.stop_words
        hit(k) == \E j \in 1..Len(cats[k].words) : word_hits(word, cats[k].words[j])
        ks == {k \in 1..Len(cats) : hit(k)}
    IN  IF ks = {} THEN <<FALSE, None>>
        ELSE <<TRUE, <<cats[CHOOSE k \in ks : \A m \in ks : k <= m].category>> >>

\* check_combination returning the last configured combination that matches
check_combination_last(message0) ==
    LET message == lower(message0)
        combos == rules.word_combinations
        ks == {k \in 1..Len(combos) :
                  contains(message, combos[k].words[1])
                  /\ contains(message, combos[k].words[2])}
    IN  IF ks = {} THEN <<FALSE, 0>>
        ELSE <<TRUE, CHOOSE k \in ks : \A m \in ks : k >= m>>

\* ModerationRules.check_combination: <<found, combo index or 0>>
check_combination(message0) ==
    LET message == lower(message0)
        combos == rules.word_combinations
        ks == {k \in 1..Len(combos) :
                  contains(message, combos[k].words[1])
                  /\ contains(message, combos[k].words[2])}
    IN  IF ks = {} THEN <<FALSE, 0>>
        ELSE <<TRUE, CHOOSE k \in ks : \A m \in ks : k <= m>>

get_spam_patterns == rules.spam_patterns

\* ModerationRules.save_rules: json.dump(self.rules) into the file
save_rules(r) == RuleFile("rules", r)

\* The position of category among the categories of stop_words, 0 if absent
category_index(r, category) ==
    LET ks == {k \in 1..Len(r.stop_words) : r.stop_words[k].category = category}
    IN  IF ks = {} THEN 0 ELSE CHOOSE k \in ks : TRUE

\* x in list
in_list(x, list) == \E i \in 1..Len(list) : list[i] = x

\* add_stop_word appending without the test "word not in ... ['words']"
add_stop_word_always_appends(r, word, category, severity) ==
    LET with_category ==
            IF category_index(r, category) = 0
            THEN [r EXCEPT !.stop_words =
                     Append(@, [category |-> category, words |-> <<>>,
                                severity |-> severity])]
            ELSE r
        k == category_index(with_category, category)
        appended == [with_category EXCEPT !.stop_words[k].words = Append(@, word)]
    IN  IF "stop_words" \notin r.keys
        THEN [rules |-> r, raised |-> TRUE, saved |-> FALSE]
        ELSE [rules |-> appended, raised |-> FALSE, saved |-> TRUE]

\* ModerationRules.add_stop_word.  self.rules['stop_words'] raises KeyError
\* when the dict has no such key, before anything is changed.
add_stop_word(r, word, category, severity) ==
    LET with_category ==
            IF category_index(r, category) = 0
            THEN [r EXCEPT !.stop_words =
                     Append(@, [category |-> category, words |-> <<>>,
                                severity |-> severity])]
            ELSE r
        k == category_index(with_category, category)
        appended == [with_category EXCEPT !.stop_words[k].words = Append(@, word)]
    IN  IF "stop_words" \notin r.keys
        THEN [rules |-> r, raised |-> TRUE, saved |-> FALSE]
        ELSE IF ~in_list(word, with_category.stop_words[k].words)
        THEN [rules |-> appended, raised |-> FALSE, saved |-> TRUE]
        ELSE [rules |-> with_category, raised |-> FALSE, saved |-> FALSE]

\* ModerationRules.add_word_combination
add_word_combination(r, word1, word2, category, severity) ==
    LET new_combo == [words |-> <<word1, word2>>, category |-> category,
                      severity |-> severity]
    IN  IF ~in_list(new_combo, r.word_combinations)
        THEN [rules |-> [r EXCEPT !.keys = @ \cup {"word_combinations"},
                                  !.word_combinations = Append(@, new_combo)],
              raised |-> FALSE, saved |-> TRUE]
        ELSE [rules |-> r, raised |-> FALSE, saved |-> FALSE]

----------------------------------------------------------------------------
(* moderator.py: the local filter *)

max_failures == 3

\* Moderator.triggers[0]
trigger_long(msg) == Len(msg) > 500

\* The caps trigger with the threshold included
trigger_caps_inclusive(msg) ==
    IF msg = <<>> THEN FALSE
    ELSE 2 * Cardinality({i \in 1..Len(msg) : isupper(msg[i])}) >= Len(msg)

\* Moderator.triggers[1]: sum(isupper)/len(msg) > 0.5 if msg else False
trigger_caps(msg) ==
    IF msg = <<>> THEN FALSE
    ELSE 2 * Cardinality({i \in 1..Len(msg) : isupper(msg[i])}) > Len(msg)

\* Moderator.triggers[2]
trigger_repeat(msg) == FALSE

check_word_combinations(message) ==
    LET r == check_combination(message)
        combo == rules.word_combinations[r[2]]
    IN  IF r[1]
        THEN <<TRUE, <<"Forbidden word combination: '">> \o combo.words[1]
                     \o <<"' + '">> \o combo.words[2]
                     \o <<"' (category: ", combo.category,
                          ", severity: ", combo.severity, ")">> >>
        ELSE <<FALSE, None>>

check_partial_matches(message) ==
    LET words == split(lower(message))
        ks == {k \in 1..Len(words) : check_word(words[k])[1]}
        k0 == CHOOSE k \in ks : \A m \in ks : k <= m
    IN  IF ks = {} THEN <<FALSE, None>>
        ELSE <<TRUE, <<"Forbidden word: '">> \o words[k0]
                     \o <<"' (category: ">> \o check_word(words[k0])[2] \o <<")">> >>

\* re.search(pattern, message) for a literal pattern: the match or None
re_search(pattern, message) ==
    IF contains(message, pattern) THEN pattern ELSE None

check_spam(message) ==
    LET pats == get_spam_patterns
        ks == {k \in 1..Len(pats) : re_search(pats[k].pattern, message) # None}
        k0 == CHOOSE k \in ks : \A m \in ks : k <= m
    IN  IF ks = {} THEN <<FALSE, None>>
        ELSE <<TRUE, <<"Spam pattern: ", pats[k0].description, " - found: ">>
                     \o re_search(pats[k0].pattern, message)>>

check_heuristics(message) ==
    IF trigger_long(message) THEN <<TRUE, <<"Moderation trigger: ", "long message">> >>
    ELSE IF trigger_caps(message) THEN <<TRUE, <<"Moderation trigger: ", "caps">> >>
    ELSE IF trigger_repeat(message) THEN <<TRUE, <<"Moderation trigger: ", "repeated message">> >>
    ELSE <<FALSE, None>>

\* check_triggers with the stop-word check ahead of the combination check
check_triggers_words_first(message) ==
    IF check_partial_matches(message)[1] THEN check_partial_matches(message)
    ELSE IF check_word_combinations(message)[1] THEN check_word_combinations(message)
    ELSE IF check_spam(message)[1] THEN check_spam(message)
    ELSE check_heuristics(message)

\* Moderator.check_triggers: <<is_violation, reason>>
check_triggers(message) ==
    IF check_word_combinations(message)[1] THEN check_word_combinations(message)
    ELSE IF check_partial_matches(message)[1] THEN check_partial_matches(message)
    ELSE IF check_spam(message)[1] THEN check_spam(message)
    ELSE check_heuristics(message)

----------------------------------------------------------------------------
(* database.py.  An operation takes the tables and returns the tables it   *)
(* leaves behind together with its return value.                           *)

hours24 == 1440

NewRow(api_key) ==
    [exists |-> TRUE, api_key |-> api_key, is_banned |-> FALSE,
     ban_reason |-> None, ban_until |-> Null,
     violations_count |-> 0, violations_expire_at |-> Null]

\* Database.add_user: INSERT OR REPLACE INTO users (user_id, api_key)
add_user(tbl, user_id, api_key) ==
    [users |-> [tbl EXCEPT ![user_id] = NewRow(api_key)], ret |-> TRUE]

\* Database.get_user: None, or the row's <<api_key, is_banned, ban_reason>>
get_user(tbl, user_id) ==
    IF ~tbl[user_id].exists THEN None
    ELSE <<tbl[user_id].api_key, tbl[user_id].is_banned, tbl[user_id].ban_reason>>

\* Database.ban_user: UPDATE users SET is_banned = 1, ban_reason, ban_until
ban_user(tbl, user_id, reason, minutes) ==
    [users |-> IF tbl[user_id].exists
               THEN [tbl EXCEPT ![user_id].is_banned = TRUE,
                                ![user_id].ban_reason = reason,
                                ![user_id].ban_until = now + minutes]
               ELSE tbl,
     ret |-> TRUE]

\* Database.unban_user
unban_user(tbl, user_id) ==
    [users |-> IF tbl[user_id].exists
               THEN [tbl EXCEPT ![user_id].is_banned = FALSE,
                                ![user_id].ban_reason = None]
               ELSE tbl,
     ret |-> TRUE]

\* is_banned reporting no ban whatever is stored
is_banned_reports_none(tbl, user_id) == [users |-> tbl, ret |-> <<FALSE, None>>]

\* is_banned lifting the ban at ban_until instead of after it
is_banned_inclusive(tbl, user_id) ==
    LET row == tbl[user_id] IN
    IF ~row.exists THEN [users |-> tbl, ret |-> <<FALSE, None>>]
    ELSE IF row.is_banned /\ row.ban_until # Null /\ now >= row.ban_until
        THEN [users |-> [tbl EXCEPT ![user_id].is_banned = FALSE,
                                    ![user_id].ban_reason = None,
                                    ![user_id].ban_until = Null],
              ret |-> <<FALSE, None>>]
        ELSE [users |-> tbl, ret |-> <<row.is_banned, row.ban_reason>>]

\* Database.is_banned: ret = <<is_banned, reason>>
is_banned(tbl, user_id) ==
    LET row == tbl[user_id] IN
    IF ~row.exists THEN [users |-> tbl, ret |-> <<FALSE, None>>]
    ELSE IF row.is_banned /\ row.ban_until # Null /\ now > row.ban_until
        THEN [users |-> [tbl EXCEPT ![user_id].is_banned = FALSE,
                                    ![user_id].ban_reason = None,
                                    ![user_id].ban_until = Null],
              ret |-> <<FALSE, None>>]
        ELSE [users |-> tbl, ret |-> <<row.is_banned, row.ban_reason>>]

\* clear_expired_violations with the comparison inverted
clear_expired_violations_inverted(tbl, user_id) ==
    LET row == tbl[user_id] IN
    IF row.exists /\ row.violations_expire_at # Null /\ now < row.violations_expire_at
        THEN [users |-> [tbl EXCEPT ![user_id].violations_count = 0,
                                    ![user_id].violations_expire_at = Null],
              ret |-> TRUE]
        ELSE [users |-> tbl, ret |-> FALSE]

\* Database.clear_expired_violations (commits on its own connection)
clear_expired_violations(tbl, user_id) ==
    LET row == tbl[user_id] IN
    IF row.exists /\ row.violations_expire_at # Null /\ now > row.violations_expire_at
        THEN [users |-> [tbl EXCEPT ![user_id].violations_count = 0,
                                    ![user_id].violations_expire_at = Null],
              ret |-> TRUE]
        ELSE [users |-> tbl, ret |-> FALSE]

\* get_ban_duration with the keys of the table off by one
get_ban_duration_shifted(violations_count) ==
    CASE violations_count = 1 -> 5
      [] violations_count = 2 -> 10
      [] violations_count = 3 -> 30
      [] violations_count = 4 -> 60
      [] OTHER -> 0

\* Database.get_ban_duration: durations.get(violations_count, 0)
get_ban_duration(violations_count) ==
    CASE violations_count = 2 -> 5
      [] violations_count = 3 -> 10
      [] violations_count = 4 -> 30
      [] violations_count = 5 -> 60
      [] OTHER -> 0

\* count_violation writing the count of a first violation over the stored one
count_violation_overwrites(tbl, user_id) ==
    IF tbl[user_id].exists
        THEN [tbl EXCEPT ![user_id].violations_count = 1,
                         ![user_id].violations_expire_at = now + hours24]
        ELSE [tbl EXCEPT ![user_id] =
                 [NewRow(None) EXCEPT !.violations_count = 1,
                                      !.violations_expire_at = now + hours24]]

\* The UPDATE / INSERT of add_violation on table users
count_violation(tbl, user_id) ==
    IF tbl[user_id].exists
        THEN [tbl EXCEPT ![user_id].violations_count = @ + 1,
                         ![user_id].violations_expire_at = now + hours24]
        ELSE [tbl EXCEPT ![user_id] =
                 [NewRow(None) EXCEPT !.violations_count = 1,
                                      !.violations_expire_at = now + hours24]]

\* Database.add_violation: ret = <<success, violations_count>>.  The UPDATE
\* names the column last_violation_date, which _init_database does not
\* create: without it the statement raises sqlite3.OperationalError and the
\* transaction is rolled back; clear_expired_violations has committed before.
add_violation(tbl, log, user_id, violation_type, reason, message) ==
    LET cleared == clear_expired_violations(tbl, user_id).users
        counted == count_violation(cleared, user_id)
    IN  IF has_last_violation_date
        THEN [users |-> counted,
              violations |-> Append(log, [user_id |-> user_id,
                                          violation_type |-> violation_type,
                                          violation_reason |-> reason,
                                          violation_date |-> now,
                                          message_text |-> message]),
              ret |-> <<TRUE, counted[user_id].violations_count>>]
        ELSE [users |-> cleared, violations |-> log, ret |-> <<FALSE, 0>>]

\* Database.get_user_violations_count: the stored count, 0 without a row
get_user_violations_count(tbl, user_id) ==
    IF tbl[user_id].exists THEN tbl[user_id].violations_count ELSE 0

\* clear_violations deleting the log entries of every user
clear_violations_all_users(tbl, log, user_id) ==
    IF has_last_violation_date
    THEN [users |-> IF tbl[user_id].exists
                    THEN [tbl EXCEPT ![user_id].violations_count = 0]
                    ELSE tbl,
          violations |-> <<>>,
          ret |-> TRUE]
    ELSE [users |-> tbl, violations |-> log, ret |-> FALSE]

\* clear_violations without its DELETE
clear_violations_count_only(tbl, log, user_id) ==
    IF has_last_violation_date
    THEN [users |-> IF tbl[user_id].exists
                    THEN [tbl EXCEPT ![user_id].violations_count = 0]
                    ELSE tbl,
          violations |-> log,
          ret |-> TRUE]
    ELSE [users |-> tbl, violations |-> log, ret |-> FALSE]

\* Database.clear_violations: DELETE FROM violations WHERE user_id, then
\* UPDATE users SET violations_count = 0, last_violation_date = NULL.  Without
\* the column the UPDATE raises and the DELETE is never committed.
clear_violations(tbl, log, user_id) ==
    IF has_last_violation_date
    THEN [users |-> IF tbl[user_id].exists
                    THEN [tbl EXCEPT ![user_id].violations_count = 0]
                    ELSE tbl,
          violations |-> SelectSeq(log, LAMBDA e : e.user_id # user_id),
          ret |-> TRUE]
    ELSE [users |-> tbl, violations |-> log, ret |-> FALSE]

----------------------------------------------------------------------------
(* What a classifier call can come back with                               *)
(* (OpenRouterClient.get_gemini_response / get_deepseek_response):         *)
(*   "none"   the call failed, or the reply was the JSON null: None        *)
(*   "dict"   a JSON object; missing keys read as is_violation False,      *)
(*            reason None; also the fallback for a reply that is not JSON  *)
(*   "other"  a JSON value that is no object: result.get raises            *)

AiReasons == {None, <<"r","u","d","e">>}

Outcomes ==
    {[kind |-> "none", is_violation |-> FALSE, reason |-> None],
     [kind |-> "other", is_violation |-> FALSE, reason |-> None]}
    \cup [kind : {"dict"}, is_violation : BOOLEAN, reason : AiReasons]

\* What a classifier request can come to: no reply (the client raises), or a
\* reply whose content is no JSON, the JSON null, a JSON value that is
\* neither null nor an object, or a JSON object
Replies ==
    [kind : {"no reply", "not json", "json null", "json other"},
     is_violation : {FALSE}, reason : {None}]
    \cup [kind : {"json object"}, is_violation : BOOLEAN, reason : AiReasons]

\* OpenRouterClient.get_gemini_response and get_deepseek_response, from the
\* reply to the returned value: json.loads of the content, the dict
\* {"is_violation": False, "reason": None} on JSONDecodeError, None on any
\* other exception
parse_reply(reply) ==
    CASE reply.kind = "no reply" ->
            [kind |-> "none", is_violation |-> FALSE, reason |-> None]
      [] reply.kind = "not json" ->
            [kind |-> "dict", is_violation |-> FALSE, reason |-> None]
      [] reply.kind = "json null" ->
            [kind |-> "none", is_violation |-> FALSE, reason |-> None]
      [] reply.kind = "json other" ->
            [kind |-> "other", is_violation |-> FALSE, reason |-> None]
      [] reply.kind = "json object" ->
            [kind |-> "dict", is_violation |-> reply.is_violation,
             reason |-> reply.reason]

----------------------------------------------------------------------------
(* moderator.py: moderate_with_ai and moderate_message *)

\* first_classifier with the threshold test off by one
first_classifier_off_by_one(gf, df) ==
    IF gf <= max_failures THEN "gemini"
    ELSE IF df < max_failures THEN "deepseek"
    ELSE "unavailable"

\* moderate_with_ai, lines 99 and 110: the classifier awaited first
first_classifier(gf, df) ==
    IF gf < max_failures THEN "gemini"
    ELSE IF df < max_failures THEN "deepseek"
    ELSE "unavailable"

\* moderate_message_begin consulting the classifiers whatever the local verdict
moderate_message_begin_always_ai(local, gf, df) ==
    IF gf < max_failures THEN "gemini"
    ELSE IF df < max_failures THEN "deepseek"
    ELSE "unavailable"

\* moderate_message, lines 129-133 and 140-141: where the call goes after
\* check_triggers; "clean" is the return of (False, None)
moderate_message_begin(local, gf, df) ==
    IF local[1] THEN first_classifier(gf, df) ELSE "clean"

\* moderate_message, line 141
clean_verdict == <<FALSE, None>>

\* call_succeeded taking a no-violation answer for a failed call
call_succeeded_only_if_flagged(result) ==
    result.kind # "none" /\ (result.kind = "dict" => result.is_violation)

\* moderate_with_ai, lines 102 and 113: result is not None
call_succeeded(result) == result.kind # "none"

\* after_gemini_failure going on to the secondary whatever its counter
after_gemini_failure_unchecked(df) == "deepseek"

\* after_gemini_failure giving up without the secondary
after_gemini_failure_gives_up(df) == "unavailable"

\* moderate_with_ai, line 110: where a failed primary call goes on
after_gemini_failure(df) ==
    IF df < max_failures THEN "deepseek" ELSE "unavailable"

\* moderate_with_ai, lines 105 and 116: the verdict of a well-formed result
verdict_of(result) == <<result.is_violation, result.reason>>

\* unavailable_result failing closed
unavailable_result_flagged == <<TRUE, None>>

\* moderate_with_ai, line 122: both models unavailable
unavailable_result == <<FALSE, None>>

\* merge_verdict reporting the classifier's reason alone
merge_verdict_ai_reason_only(local, ai) ==
    IF ai[1]
        THEN <<TRUE, <<"AI reason: ">> \o format(ai[2])>>
        ELSE <<TRUE, local[2]>>

\* merge_verdict letting the classifier overturn the local verdict
merge_verdict_ai_decides(local, ai) ==
    IF ai[1]
        THEN <<TRUE, <<"Local reason: ">> \o local[2] \o <<". AI reason: ">> \o format(ai[2])>>
        ELSE <<FALSE, None>>

\* moderate_message, lines 134-138, for a locally flagged message
merge_verdict(local, ai) ==
    IF ai[1]
        THEN <<TRUE, <<"Local reason: ">> \o local[2] \o <<". AI reason: ">> \o format(ai[2])>>
        ELSE <<TRUE, local[2]>>

----------------------------------------------------------------------------
(* cache.py: Cache.  The dict _cache is the sequence of its entries in      *)
(* insertion order, which is the order min() and the comprehensions see.    *)

RECURSIVE join(_)
\* " ".join(words)
join(words) ==
    IF words = <<>> THEN <<>>
    ELSE IF Len(words) = 1 THEN words[1]
    ELSE words[1] \o <<" ">> \o join(Tail(words))

\* Cache._generate_key: " ".join(message.lower().split())
generate_key(message) == join(split(lower(message)))

\* The positions of key in the dict: none or one
key_index(c, key) == {i \in 1..Len(c) : c[i].key = key}

\* del self._cache[key] for the key at position i
del_entry(c, i) == SubSeq(c, 1, i - 1) \o SubSeq(c, i + 1, Len(c))

\* Cache.get at time.time() = t
cache_get(c, ttl, message, t) ==
    LET idx == key_index(c, generate_key(message))
        i == CHOOSE i \in idx : TRUE
    IN  IF idx = {} THEN [cache |-> c, ret |-> None]
        ELSE IF t - c[i].timestamp <= ttl
            THEN [cache |-> c, ret |-> c[i].response]
            ELSE [cache |-> del_entry(c, i), ret |-> None]

\* min(self._cache.items(), key=timestamp): the first of the entries with
\* the least timestamp
oldest(c) ==
    CHOOSE i \in 1..Len(c) :
        /\ \A j \in 1..Len(c) : c[i].timestamp <= c[j].timestamp
        /\ \A j \in 1..(i - 1) : c[j].timestamp > c[i].timestamp

\* cache_set without the eviction
cache_set_no_eviction(c, max_size, message, response, t) ==
    LET entry == [key |-> generate_key(message), response |-> response, timestamp |-> t]
        idx == key_index(c, entry.key)
    IN  IF idx = {} THEN Append(c, entry)
        ELSE [c EXCEPT ![CHOOSE i \in idx : TRUE] = entry]

\* Cache.set at time.time() = t: with max_size entries or more the oldest
\* goes first, then the entry is assigned to its key
cache_set(c, max_size, message, response, t) ==
    LET entry == [key |-> generate_key(message), response |-> response, timestamp |-> t]
        kept == IF Len(c) >= max_size THEN del_entry(c, oldest(c)) ELSE c
        idx == key_index(kept, entry.key)
    IN  IF idx = {} THEN Append(kept, entry)
        ELSE [kept EXCEPT ![CHOOSE i \in idx : TRUE] = entry]

\* Cache.clear_expired at time.time() = t
clear_expired(c, ttl, t) ==
    SelectSeq(c, LAMBDA e : ~(t - e.timestamp > ttl))

NoCacheCall ==
    [op |-> "none", message |-> None, ret |-> None, before |-> <<>>, at |-> 0]

----------------------------------------------------------------------------
(* handlers.py: process_message *)

NotInvoked == [kind |-> "not invoked", is_violation |-> FALSE, reason |-> None]
Pending == [kind |-> "pending", is_violation |-> FALSE, reason |-> None]

\* tested: the value of the classifier's failure counter that the test at
\* line 99 or 110 read before the call that is pending
\* retries: the local of with_reconnection's wrapper around the pending call
IdleTask ==
    [pc |-> "idle", user_id |-> 0, text |-> None, local |-> <<FALSE, None>>,
     gemini |-> NotInvoked, deepseek |-> NotInvoked, tested |-> 0,
     retries |-> 0]

\* failed adding one to the value read before the await
failed_from_tested(failures, tested) == tested + 1

\* moderate_with_ai, lines 106 and 117: self.<model>_failures += 1
failed(failures, tested) == failures + 1

\* moderate_with_ai, lines 103 and 114: self.<model>_failures = 0
succeeded(failures) == 0

\* outcome: how the handler ended
\*   "no_key" "blocked" "cached" "answered"   before or without enforcement
\*   "record_failed" "warning" "ban" "silent" the enforcement of a flagged text
\*   "error"                                  an exception caught at line 310
\*   "violations"                             cmd_violations has replied
\*   "cleared" "clear_failed"                 Database.clear_violations returned
\* moderated: moderate_message was called; local, gemini, deepseek, ai_from,
\* ai and result are what it computed, received and returned
NoLast ==
    [outcome |-> "none", user_id |-> 0, text |-> None,
     moderated |-> FALSE,
     local |-> <<FALSE, None>>,
     gemini |-> NotInvoked, deepseek |-> NotInvoked,
     ai_from |-> "not called", ai |-> <<FALSE, None>>,
     result |-> <<FALSE, None>>,
     add_called |-> FALSE, add_ret |-> <<FALSE, 0>>,
     ban_minutes |-> 0, violations_count |-> 0]

\* enforce without the test of add_violation's success flag
enforce_unchecked(tbl, log, user_id, text, violation_reason) ==
    LET added == add_violation(tbl, log, user_id, "content_policy", violation_reason, text)
        violations_count == added.ret[2]
        ban_duration == get_ban_duration(violations_count)
    IN  IF violations_count = 1
            THEN [users |-> added.users, violations |-> added.violations,
                  outcome |-> "warning", add_ret |-> added.ret, ban_minutes |-> 0]
        ELSE IF ban_duration > 0
            THEN [users |-> ban_user(added.users, user_id, violation_reason, ban_duration).users,
                  violations |-> added.violations,
                  outcome |-> "ban", add_ret |-> added.ret, ban_minutes |-> ban_duration]
        ELSE [users |-> added.users, violations |-> added.violations,
              outcome |-> "silent", add_ret |-> added.ret, ban_minutes |-> 0]

\* process_message, lines 250-287: the enforcement of a flagged message.
enforce(tbl, log, user_id, text, violation_reason) ==
    LET added == add_violation(tbl, log, user_id, "content_policy", violation_reason, text)
        violations_count == added.ret[2]
        ban_duration == get_ban_duration(violations_count)
    IN  IF ~added.ret[1]
            THEN [users |-> added.users, violations |-> added.violations,
                  outcome |-> "record_failed", add_ret |-> added.ret, ban_minutes |-> 0]
        ELSE IF violations_count = 1
            THEN [users |-> added.users, violations |-> added.violations,
                  outcome |-> "warning", add_ret |-> added.ret, ban_minutes |-> 0]
        ELSE IF ban_duration > 0
            THEN [users |-> ban_user(added.users, user_id, violation_reason, ban_duration).users,
                  violations |-> added.violations,
                  outcome |-> "ban", add_ret |-> added.ret, ban_minutes |-> ban_duration]
        ELSE [users |-> added.users, violations |-> added.violations,
              outcome |-> "silent", add_ret |-> added.ret, ban_minutes |-> 0]

\* moderate_with_ai has returned ai to moderate_message, which returns to
\* process_message, which enforces: no await in between
Conclude(t, tsk, tbl, ai_from, ai) ==
    LET result == merge_verdict(tsk.local, ai)
        e == enforce(tbl, violations, tsk.user_id, tsk.text, result[2])
    IN  /\ users' = e.users
        /\ violations' = e.violations
        /\ task' = [task EXCEPT ![t] = IdleTask]
        /\ last' = [NoLast EXCEPT !.outcome = e.outcome,
                                  !.user_id = tsk.user_id, !.text = tsk.text,
                                  !.moderated = TRUE,
                                  !.local = tsk.local,
                                  !.gemini = tsk.gemini,
                                  !.deepseek = tsk.deepseek,
                                  !.ai_from = ai_from, !.ai = ai,
                                  !.result = result,
                                  !.add_called = TRUE, !.add_ret = e.add_ret,
                                  !.ban_minutes = e.ban_minutes]

\* result.get raised AttributeError: caught at line 310, an error reply
Raised(t, tsk) ==
    /\ task' = [task EXCEPT ![t] = IdleTask]
    /\ last' = [NoLast EXCEPT !.outcome = "error",
                              !.user_id = tsk.user_id, !.text = tsk.text,
                              !.moderated = TRUE,
                              !.local = tsk.local,
                              !.gemini = tsk.gemini,
                              !.deepseek = tsk.deepseek,
                              !.ai_from = "raised"]
    /\ UNCHANGED <<users, violations>>

\* A handler that ends without enforcement
Finish(t, user_id, text, outcome, moderated, local, result) ==
    /\ task' = [task EXCEPT ![t] = IdleTask]
    /\ last' = [NoLast EXCEPT !.outcome = outcome, !.user_id = user_id,
                              !.text = text, !.moderated = moderated,
                              !.local = local, !.result = result]

\* process_message from its start to its first classifier await, or to its
\* end; cached: cache.get at line 228 gave a response
process_message(t, user_id, text, cached) ==
    LET user_data == get_user(users, user_id)
        b == is_banned(users, user_id)
        local == check_triggers(text)
        tsk == [IdleTask EXCEPT !.user_id = user_id, !.text = text, !.local = local]
        first == moderate_message_begin(local, gemini_failures, deepseek_failures)
    IN  /\ task[t].pc = "idle"
        /\ Len(violations) < MaxViolations
        /\ UNCHANGED <<rule_vars, limiter_vars, now, has_last_violation_date, gemini_failures, deepseek_failures>>
        /\ IF user_data = None \/ user_data[1] = None
             THEN /\ Finish(t, user_id, text, "no_key", FALSE, <<FALSE, None>>, <<FALSE, None>>)
                  /\ UNCHANGED <<users, violations>>
           ELSE IF b.ret[1]
             THEN /\ Finish(t, user_id, text, "blocked", FALSE, <<FALSE, None>>, <<FALSE, None>>)
                  /\ users' = b.users
                  /\ UNCHANGED violations
           ELSE IF cached
             THEN /\ Finish(t, user_id, text, "cached", FALSE, <<FALSE, None>>, <<FALSE, None>>)
                  /\ users' = b.users
                  /\ UNCHANGED violations
           ELSE IF is_admin(user_id)
             THEN /\ Finish(t, user_id, text, "answered", FALSE, <<FALSE, None>>, <<FALSE, None>>)
                  /\ users' = b.users
                  /\ UNCHANGED violations
           ELSE IF first = "clean"
             THEN /\ Finish(t, user_id, text, "answered", TRUE, local, clean_verdict)
                  /\ users' = b.users
                  /\ UNCHANGED violations
           ELSE IF first = "unavailable"
             THEN Conclude(t, tsk, b.users, "unavailable", unavailable_result)
           ELSE /\ task' = [task EXCEPT ![t] =
                              [tsk EXCEPT !.pc = first,
                                          !.tested = IF first = "gemini" THEN gemini_failures
                                                     ELSE deepseek_failures,
                                          !.gemini = IF first = "gemini" THEN Pending ELSE NotInvoked,
                                          !.deepseek = IF first = "deepseek" THEN Pending ELSE NotInvoked]]
                /\ users' = b.users
                /\ UNCHANGED <<violations, last>>

\* process_message apart from the cache, with the outcome of the lookup given
Receive(t, user_id, text, cached) ==
    /\ process_message(t, user_id, text, cached)
    /\ UNCHANGED cache_vars

\* A call of Cache.set
CacheSet(max_size, message, response) ==
    /\ cache' = cache_set(cache, max_size, message, response, time)
    /\ cache_call' = [op |-> "set", message |-> message, ret |-> None,
                      before |-> cache, at |-> time]
    /\ UNCHANGED <<handler_vars, limiter_vars, rule_vars>>

\* A call of Cache.get
CacheGet(ttl, message) ==
    LET g == cache_get(cache, ttl, message, time)
    IN  /\ cache' = g.cache
        /\ cache_call' = [op |-> "get", message |-> message, ret |-> g.ret,
                          before |-> cache, at |-> time]
        /\ UNCHANGED <<handler_vars, limiter_vars, rule_vars>>

\* A call of Cache.clear_expired
ClearExpired(ttl) ==
    /\ cache' = clear_expired(cache, ttl, time)
    /\ cache_call' = [op |-> "clear_expired", message |-> None, ret |-> None,
                      before |-> cache, at |-> time]
    /\ UNCHANGED <<handler_vars, limiter_vars, rule_vars>>

\* handlers.py, line 68: cache = Cache(max_size=1000, ttl=3600)
cache_max_size == 1000
cache_ttl == 3600

\* What get_learnlm_response returns for a question: a text
Response == <<"a">>

\* process_message with the cache: cache.get at line 228 once the key and the
\* ban have been checked, cache.set at line 303 once the answer has been sent
\* (replied: message.reply did not raise)
ProcessMessage(t, user_id, text) ==
    LET g == cache_get(cache, cache_ttl, text, time)
    IN  /\ process_message(t, user_id, text, g.ret # None)
        /\ \E replied \in BOOLEAN :
              cache' = IF task'[t].pc = "idle" /\ last'.outcome \in {"no_key", "blocked"}
                           THEN cache
                       ELSE IF task'[t].pc = "idle" /\ last'.outcome = "answered" /\ replied
                           THEN cache_set(g.cache, cache_max_size, text, Response, time)
                       ELSE g.cache
        /\ UNCHANGED cache_call

\* The instants at which an entry of the cache reaches the age ttl or has
\* just passed it
CacheTargets(c, ttl) ==
    UNION {{c[i].timestamp + ttl, c[i].timestamp + ttl + 1} : i \in 1..Len(c)}

\* time.time() advances to the instant t
CacheClock(t) ==
    /\ t > time
    /\ time' = t
    /\ UNCHANGED <<requests, limiter_violations, last_check>>
    /\ UNCHANGED <<handler_vars, rule_vars, cache_vars>>

\* api_client.get_gemini_response returns to moderate_with_ai, line 101
GeminiReturns(t, result) ==
    LET tsk == [task[t] EXCEPT !.gemini = result]
        next == after_gemini_failure(deepseek_failures)
    IN  /\ task[t].pc = "gemini"
        /\ UNCHANGED <<rule_vars, limiter_vars, cache_vars, now, has_last_violation_date, deepseek_failures>>
        /\ IF call_succeeded(result)
             THEN /\ gemini_failures' = succeeded(gemini_failures)
                  /\ IF result.kind = "dict"
                       THEN Conclude(t, tsk, users, "gemini", verdict_of(result))
                       ELSE Raised(t, tsk)
           ELSE /\ gemini_failures' = failed(gemini_failures, task[t].tested)
                /\ IF next = "deepseek"
                     THEN /\ task' = [task EXCEPT ![t] = [tsk EXCEPT !.pc = "deepseek",
                                                                     !.tested = deepseek_failures,
                                                                     !.retries = 0,
                                                                     !.deepseek = Pending]]
                          /\ UNCHANGED <<users, violations, last>>
                     ELSE Conclude(t, tsk, users, "unavailable", unavailable_result)

\* api_client.get_deepseek_response returns to moderate_with_ai, line 112
DeepseekReturns(t, result) ==
    LET tsk == [task[t] EXCEPT !.deepseek = result]
    IN  /\ task[t].pc = "deepseek"
        /\ UNCHANGED <<rule_vars, limiter_vars, cache_vars, now, has_last_violation_date, gemini_failures>>
        /\ IF call_succeeded(result)
             THEN /\ deepseek_failures' = succeeded(deepseek_failures)
                  /\ IF result.kind = "dict"
                       THEN Conclude(t, tsk, users, "deepseek", verdict_of(result))
                       ELSE Raised(t, tsk)
           ELSE /\ deepseek_failures' = failed(deepseek_failures, task[t].tested)
                /\ Conclude(t, tsk, users, "unavailable", unavailable_result)

\* api_reconnector.py, the decorator's arguments at lines 94 and 101
max_retries == 3

\* client_raises with a failed request propagating out of the client
client_raises_on_failure(reply) == reply.kind = "no reply"

\* OpenRouterClient.get_gemini_response and get_deepseek_response: the whole
\* body is inside try ... except Exception: return None, so the call returns
\* whatever the request comes to
client_raises(reply) == FALSE

\* with_reconnection's wrapper after one attempt: it returns what the client
\* returned; on an exception it raises at the last attempt and otherwise
\* sleeps, reconnects and calls the client again
with_reconnection(raises, retries) ==
    IF ~raises THEN "return"
    ELSE IF retries + 1 = max_retries THEN "raise"
    ELSE "retry"

\* One attempt of APIReconnector.get_gemini_response on behalf of
\* moderate_with_ai, line 101
GetGeminiResponse(t, reply) ==
    LET w == with_reconnection(client_raises(reply), task[t].retries)
    IN  /\ task[t].pc = "gemini"
        /\ IF w = "return" THEN GeminiReturns(t, parse_reply(reply))
           ELSE /\ IF w = "raise"
                     THEN Raised(t, task[t])
                     ELSE /\ task' = [task EXCEPT ![t].retries = @ + 1]
                          /\ UNCHANGED <<users, violations, last>>
                /\ UNCHANGED <<rule_vars, limiter_vars, cache_vars, now, has_last_violation_date,
                               gemini_failures, deepseek_failures>>

\* One attempt of APIReconnector.get_deepseek_response on behalf of
\* moderate_with_ai, line 112
GetDeepseekResponse(t, reply) ==
    LET w == with_reconnection(client_raises(reply), task[t].retries)
    IN  /\ task[t].pc = "deepseek"
        /\ IF w = "return" THEN DeepseekReturns(t, parse_reply(reply))
           ELSE /\ IF w = "raise"
                     THEN Raised(t, task[t])
                     ELSE /\ task' = [task EXCEPT ![t].retries = @ + 1]
                          /\ UNCHANGED <<users, violations, last>>
                /\ UNCHANGED <<rule_vars, limiter_vars, cache_vars, now, has_last_violation_date,
                               gemini_failures, deepseek_failures>>

\* process_api_key with a key the API accepts: db.add_user
ProcessApiKey(user_id) ==
    /\ users' = add_user(users, user_id, <<"s","k","-">>).users
    /\ UNCHANGED <<rule_vars, limiter_vars, cache_vars, now, has_last_violation_date, violations,
                   gemini_failures, deepseek_failures, task, last>>

\* The instants at which a stored timestamp is reached or has just passed
TickTargets ==
    UNION {{users[u].ban_until, users[u].ban_until + 1,
            users[u].violations_expire_at, users[u].violations_expire_at + 1}
           : u \in {v \in Users : users[v].exists}}

\* The clock advances
Tick ==
    /\ \E t \in TickTargets : t > now /\ t <= MaxTime /\ now' = t
    /\ UNCHANGED <<rule_vars, limiter_vars, cache_vars, has_last_violation_date, users, violations,
                   gemini_failures, deepseek_failures, task, last>>

\* cmd_violations reading the count without clear_expired_violations
cmd_violations_plain_read(tbl, user_id) ==
    [users |-> tbl, violations_count |-> get_user_violations_count(tbl, user_id)]

\* cmd_violations, lines 556-563: clear_expired_violations, then the count
cmd_violations(tbl, user_id) ==
    LET cleared == clear_expired_violations(tbl, user_id).users
    IN  [users |-> cleared,
         violations_count |-> get_user_violations_count(cleared, user_id)]

\* The command /violations
CmdViolations(user_id) ==
    LET r == cmd_violations(users, user_id)
    IN  /\ users' = r.users
        /\ last' = [NoLast EXCEPT !.outcome = "violations", !.user_id = user_id,
                                  !.violations_count = r.violations_count]
        /\ UNCHANGED <<rule_vars, limiter_vars, cache_vars, now, has_last_violation_date,
                       violations, gemini_failures, deepseek_failures, task>>

\* A call of Database.clear_violations
ClearViolations(user_id) ==
    LET r == clear_violations(users, violations, user_id)
    IN  /\ users' = r.users
        /\ violations' = r.violations
        /\ last' = [NoLast EXCEPT !.outcome = IF r.ret THEN "cleared" ELSE "clear_failed",
                                  !.user_id = user_id]
        /\ UNCHANGED <<rule_vars, limiter_vars, cache_vars, now, has_last_violation_date,
                       gemini_failures, deepseek_failures, task>>

\* Database.add_violation when the INSERT or the UPDATE of its transaction
\* raises sqlite3.Error (the database is locked by another connection, the
\* disk is full): lines 366-369 roll the transaction back and return
\* (False, 0).  clear_expired_violations has run before on a connection of
\* its own; committed: its UPDATE went through
add_violation_error(tbl, log, user_id, committed) ==
    [users |-> IF committed THEN clear_expired_violations(tbl, user_id).users ELSE tbl,
     violations |-> log,
     ret |-> <<FALSE, 0>>]

\* A call of Database.add_violation; error: "none", or a sqlite3.Error in the
\* transaction "after" clear_expired_violations, or from the "start"
AddViolation(user_id, error) ==
    LET r == IF error = "none"
                 THEN add_violation(users, violations, user_id, "content_policy",
                                    <<"r">>, <<"m">>)
                 ELSE add_violation_error(users, violations, user_id, error = "after")
    IN  /\ users' = r.users
        /\ violations' = r.violations
        /\ last' = [NoLast EXCEPT !.outcome = IF r.ret[1] THEN "added" ELSE "add_failed",
                                  !.user_id = user_id,
                                  !.add_called = TRUE, !.add_ret = r.ret]
        /\ UNCHANGED <<rule_vars, limiter_vars, cache_vars, now, has_last_violation_date,
                       gemini_failures, deepseek_failures, task>>

\* db_cleaner.py, line 76: clean_old_violations(self, days: int = 90)
days == 90

\* clean_old_violations keeping nothing
clean_old_violations_everything(log, age) == <<>>

\* DatabaseCleaner.clean_old_violations: DELETE FROM violations WHERE
\* violation_date < now - timedelta(days=age)
clean_old_violations(log, age) ==
    SelectSeq(log, LAMBDA e : ~(e.violation_date < now - age * 24 * 60))

\* The scheduler's weekly clean_all reaches clean_old_violations; the count
\* of deleted rows is what it returns
CleanOldViolations ==
    /\ violations' = clean_old_violations(violations, days)
    /\ last' = [NoLast EXCEPT !.outcome = "cleaned",
                              !.violations_count = Len(violations) - Len(violations')]
    /\ UNCHANGED <<rule_vars, limiter_vars, cache_vars, now, has_last_violation_date, users,
                   gemini_failures, deepseek_failures, task>>

\* The instants at which a log entry reaches the cleaner's age or has just
\* passed it
CleanerTargets ==
    UNION {{violations[i].violation_date + days * 24 * 60,
            violations[i].violation_date + days * 24 * 60 + 1}
           : i \in 1..Len(violations)}

\* The clock advances to an expiry of the first days or to a cleaner's cutoff
CleanerTick(limit) ==
    /\ \E t \in {x \in TickTargets : x <= MaxTime} \cup {x \in CleanerTargets : x <= limit} :
          t > now /\ now' = t
    /\ UNCHANGED <<rule_vars, limiter_vars, cache_vars, has_last_violation_date, users, violations,
                   gemini_failures, deepseek_failures, task, last>>

----------------------------------------------------------------------------
(* rate_limiter.py and middlewares.py.  A request is <<ts, count>>.         *)

\* RateLimiter.limits
limits ==
    [default |-> [requests |-> 20, interval |-> 60],
     admin |-> [requests |-> 100, interval |-> 60],
     new_user |-> [requests |-> 10, interval |-> 60]]

UserTypes == {"default", "admin", "new_user", "vip"}

NoCheck ==
    [user_id |-> 0, user_type |-> "none", allowed |-> TRUE, time_to_reset |-> None,
     cleaned_at |-> 0, checked_at |-> 0, retained |-> 0]

\* clean_old_requests keeping a request that is exactly interval seconds old
clean_old_requests_inclusive(reqs, user_id, interval, current_time) ==
    [reqs EXCEPT ![user_id] =
        SelectSeq(@, LAMBDA r : current_time - r[1] <= interval)]

\* RateLimiter._clean_old_requests at clock reading current_time
clean_old_requests(reqs, user_id, interval, current_time) ==
    [reqs EXCEPT ![user_id] =
        SelectSeq(@, LAMBDA e : current_time - e[1] < interval)]

RECURSIVE sum_counts(_)
\* sum(count for ts, count in list)
sum_counts(list) ==
    IF list = <<>> THEN 0 ELSE Head(list)[2] + sum_counts(Tail(list))

\* min(ts for ts, _ in list), list not empty
min_ts(list) ==
    CHOOSE m \in {list[i][1] : i \in 1..Len(list)} :
        \A i \in 1..Len(list) : m <= list[i][1]

\* max(0, x)
max0(x) == IF x > 0 THEN x ELSE 0

\* RateLimiter.check_limit: ret = <<allowed, time_to_reset>>.  The clock is
\* read twice: cleaned_at in _clean_old_requests, current_time at line 66.
check_limit(reqs, user_id, user_type, cleaned_at, current_time) ==
    LET limit == IF user_type \in DOMAIN limits THEN limits[user_type] ELSE limits["default"]
        max_requests == limit.requests
        interval == limit.interval
        cleaned == clean_old_requests(reqs, user_id, interval, cleaned_at)
        total_requests == sum_counts(cleaned[user_id])
        oldest_ts == IF cleaned[user_id] # <<>> THEN min_ts(cleaned[user_id]) ELSE current_time
        time_to_reset == interval - (current_time - oldest_ts)
    IN  IF total_requests >= max_requests
            THEN [requests |-> cleaned, ret |-> <<FALSE, max0(time_to_reset)>>]
            ELSE [requests |-> cleaned, ret |-> <<TRUE, None>>]

\* RateLimiter.add_request at clock reading current_time
add_request(reqs, user_id, current_time) ==
    [reqs EXCEPT ![user_id] = Append(@, <<current_time, 1>>)]

\* add_violation raising the counter of every user
limiter_add_violation_all_users(viol, user_id) ==
    [u \in Users |-> viol[u] + 1]

\* RateLimiter.add_violation: the counter after the increment
limiter_add_violation(viol, user_id) ==
    [viol EXCEPT ![user_id] = @ + 1]

\* on_pre_process_message recording the request whatever check_limit said
on_pre_process_message_always_records(reqs, viol, user_id, cleaned_at, current_time) ==
    LET user_type == IF is_admin(user_id) THEN "admin" ELSE "default"
        chk == check_limit(reqs, user_id, user_type, cleaned_at, current_time)
    IN  [requests |-> add_request(chk.requests, user_id, current_time),
         violations |-> IF chk.ret[1] THEN viol ELSE limiter_add_violation(viol, user_id),
         user_type |-> user_type,
         ret |-> chk.ret,
         cancelled |-> ~chk.ret[1]]

\* RateLimitMiddleware.on_pre_process_message: cancelled is CancelHandler
on_pre_process_message(reqs, viol, user_id, cleaned_at, current_time) ==
    LET user_type == IF is_admin(user_id) THEN "admin" ELSE "default"
        chk == check_limit(reqs, user_id, user_type, cleaned_at, current_time)
    IN  IF ~chk.ret[1]
            THEN [requests |-> chk.requests,
                  violations |-> limiter_add_violation(viol, user_id),
                  user_type |-> user_type,
                  ret |-> chk.ret,
                  cancelled |-> TRUE]
            ELSE [requests |-> add_request(chk.requests, user_id, current_time),
                  violations |-> viol,
                  user_type |-> user_type,
                  ret |-> chk.ret,
                  cancelled |-> FALSE]

\* The instants at which a recorded request is about to leave, or leaves, the
\* window
ClockTargets ==
    UNION {UNION {{requests[u][i][1] + limits[k].interval - 1,
                   requests[u][i][1] + limits[k].interval}
                  : i \in 1..Len(requests[u])}
           : <<u, k>> \in Users \X DOMAIN limits}

\* What the second reading of the clock in check_limit can give: the first
\* reading, or the next instant when a request leaves the window at it
ClockReads == {time} \cup {t \in ClockTargets : t = time + 1 /\ t <= MaxClock}

\* A message of user_id arrives at the middleware
OnPreProcessMessage(user_id) ==
    \E current_time \in ClockReads :
        LET r == on_pre_process_message(requests, limiter_violations, user_id,
                                        time, current_time)
        IN  /\ r.cancelled => limiter_violations[user_id] < MaxDenials
            /\ time' = current_time
            /\ requests' = r.requests
            /\ limiter_violations' = r.violations
            /\ last_check' = [user_id |-> user_id, user_type |-> r.user_type,
                              allowed |-> r.ret[1], time_to_reset |-> r.ret[2],
                              cleaned_at |-> time, checked_at |-> current_time,
                              retained |-> Len(r.requests[user_id])]
            /\ UNCHANGED <<handler_vars, rule_vars, cache_vars>>

\* The clock of time.time() advances
TickClock ==
    /\ \E t \in ClockTargets : t > time /\ t <= MaxClock /\ time' = t
    /\ UNCHANGED <<requests, limiter_violations, last_check>>
    /\ UNCHANGED <<handler_vars, rule_vars, cache_vars>>

\* reset_violations clearing every user's counter
reset_violations_all_users(viol, user_id) == [u \in Users |-> 0]

\* RateLimiter.reset_violations: del self.violations[user_id]
reset_violations(viol, user_id) == [viol EXCEPT ![user_id] = 0]

\* A call of RateLimiter.reset_violations
ResetViolations(user_id) ==
    /\ limiter_violations' = reset_violations(limiter_violations, user_id)
    /\ UNCHANGED <<time, requests, last_check>>
    /\ UNCHANGED <<handler_vars, rule_vars, cache_vars>>

\* The module has been imported: ModerationRules() did not raise
Loaded == ~(rule_call.op = "__init__" /\ rule_call.raised)

\* A call of moderation_rules.add_stop_word
AddStopWord(word, category, severity) ==
    LET r == add_stop_word(rules, word, category, severity)
    IN  /\ Loaded
        /\ rules' = r.rules
        /\ rules_file' = IF r.saved THEN save_rules(r.rules) ELSE rules_file
        /\ rule_call' = [op |-> "add_stop_word", args |-> <<word, category, severity>>,
                         raised |-> r.raised, saved |-> r.saved]
        /\ UNCHANGED <<handler_vars, limiter_vars, cache_vars>>

\* A call of moderation_rules.add_word_combination
AddWordCombination(word1, word2, category, severity) ==
    LET r == add_word_combination(rules, word1, word2, category, severity)
    IN  /\ Loaded
        /\ rules' = r.rules
        /\ rules_file' = IF r.saved THEN save_rules(r.rules) ELSE rules_file
        /\ rule_call' = [op |-> "add_word_combination",
                         args |-> <<word1, word2, category, severity>>,
                         raised |-> r.raised, saved |-> r.saved]
        /\ UNCHANGED <<handler_vars, limiter_vars, cache_vars>>

\* The process after start-up, with moderation_rules.json being file
InitWith(file) ==
    /\ rules_file = file
    /\ rules = load_rules(file)
    /\ rule_call = [NoRuleCall EXCEPT !.raised = init_raises(file)]
    /\ time = 0
    /\ requests = [u \in Users |-> <<>>]
    /\ limiter_violations = [u \in Users |-> 0]
    /\ last_check = NoCheck
    /\ now = 0
    /\ has_last_violation_date \in BOOLEAN
    /\ users = [u \in Users |-> NoRow]
    /\ violations = <<>>
    /\ gemini_failures = 0
    /\ deepseek_failures = 0
    /\ task = [t \in Tasks |-> IdleTask]
    /\ last = NoLast
    /\ cache = <<>>
    /\ cache_call = NoCacheCall

Init == InitWith(DocumentFile)

\* The users of the ledger: a member and the administrator
LedgerUsers == {1, 2}

\* The ledger under one clean and one flagged text, with both classifiers
\* down: every call fails
LedgerMessages == {<<"o","k">>, <<"f","o","o","l">>}

LedgerOutcomes == {[kind |-> "none", is_violation |-> FALSE, reason |-> None]}

\* One message at a time
OneTask == {1}

Next ==
    \/ \E t \in OneTask, u \in LedgerUsers, m \in LedgerMessages, c \in BOOLEAN : Receive(t, u, m, c)
    \/ \E t \in OneTask, r \in LedgerOutcomes : GeminiReturns(t, r)
    \/ \E t \in OneTask, r \in LedgerOutcomes : DeepseekReturns(t, r)
    \/ \E u \in LedgerUsers : ProcessApiKey(u)
    \/ Tick

Spec == Init /\ [][Next]_vars

\* The moderator under every text and every classifier outcome, on the
\* schema that _init_database creates
InitModerator ==
    /\ Init
    /\ ~has_last_violation_date

NextModerator ==
    \/ \E t \in OneTask, u \in LedgerUsers, m \in Messages, c \in BOOLEAN : Receive(t, u, m, c)
    \/ \E t \in OneTask, r \in Outcomes : GeminiReturns(t, r)
    \/ \E t \in OneTask, r \in Outcomes : DeepseekReturns(t, r)
    \/ \E u \in LedgerUsers : ProcessApiKey(u)

SpecModerator == InitModerator /\ [][NextModerator]_vars

\* Two messages of one user in flight at once, on a database that records
\* violations: the handlers interleave at the awaits of the classifier calls
InitConcurrent ==
    /\ Init
    /\ has_last_violation_date

ConcurrentUsers == LedgerUsers \ Admins

ConcurrentMessages == {<<"f","o","o","l">>}

ConcurrentOutcomes ==
    {[kind |-> "none", is_violation |-> FALSE, reason |-> None],
     [kind |-> "dict", is_violation |-> FALSE, reason |-> None]}

NextConcurrent ==
    \/ \E t \in Tasks, u \in ConcurrentUsers, m \in ConcurrentMessages :
          Receive(t, u, m, FALSE)
    \/ \E t \in Tasks, r \in ConcurrentOutcomes : GeminiReturns(t, r)
    \/ \E t \in Tasks, r \in ConcurrentOutcomes : DeepseekReturns(t, r)
    \/ \E u \in ConcurrentUsers : ProcessApiKey(u)

SpecConcurrent == InitConcurrent /\ [][NextConcurrent]_vars

\* The rate limiter under the messages of a user of the default tier
LimiterSenders == LedgerUsers \ Admins

NextLimiter ==
    \/ \E u \in LimiterSenders : OnPreProcessMessage(u)
    \/ TickClock

InitLimiter ==
    /\ Init
    /\ ~has_last_violation_date

SpecLimiter == InitLimiter /\ [][NextLimiter]_vars

\* The local filter under the texts of FilterMessages, with both classifiers
\* down
FilterSenders == LedgerUsers \ Admins

NextFilter ==
    \/ \E t \in OneTask, u \in FilterSenders, m \in FilterMessages : Receive(t, u, m, FALSE)
    \/ \E t \in OneTask, r \in LedgerOutcomes : GeminiReturns(t, r)
    \/ \E t \in OneTask, r \in LedgerOutcomes : DeepseekReturns(t, r)
    \/ \E u \in FilterSenders : ProcessApiKey(u)

SpecFilter == InitModerator /\ [][NextFilter]_vars

\* The rate limiter next to the ledger: a member registers, sends flagged
\* texts and floods; the limiter's clock runs until the window has passed
FrameUsers == Users \ Admins

FrameSenders == LedgerUsers \ Admins

NextFrame ==
    \/ \E u \in FrameUsers : ProcessApiKey(u)
    \/ \E t \in OneTask, u \in FrameSenders, m \in ConcurrentMessages :
          Receive(t, u, m, FALSE)
    \/ \E t \in OneTask, r \in LedgerOutcomes : GeminiReturns(t, r)
    \/ \E t \in OneTask, r \in LedgerOutcomes : DeepseekReturns(t, r)
    \/ \E u \in FrameSenders : OnPreProcessMessage(u)
    \/ \E u \in FrameSenders : ResetViolations(u)
    \/ (TickClock /\ time' <= MaxFrameClock)

SpecFrame == InitConcurrent /\ [][NextFrame]_vars

\* Two members side by side: both register, send flagged texts, are banned
\* and have their violations cleared while the clock passes the first ban;
\* one floods the limiter while the other sends a message
recorded(log, user_id) == Len(SelectSeq(log, LAMBDA e : e.user_id = user_id))

NextIsolation ==
    \/ \E u \in FrameUsers : ProcessApiKey(u)
    \/ \E t \in OneTask, u \in FrameUsers, m \in ConcurrentMessages :
          recorded(violations, u) < MaxRecorded /\ Receive(t, u, m, FALSE)
    \/ \E t \in OneTask, r \in LedgerOutcomes : GeminiReturns(t, r)
    \/ \E t \in OneTask, r \in LedgerOutcomes : DeepseekReturns(t, r)
    \/ \E u \in FrameUsers : ClearViolations(u)
    \/ \E u \in FrameSenders : OnPreProcessMessage(u)
    \/ \E u \in FrameUsers \ FrameSenders :
          Len(requests[u]) < MaxOtherRequests /\ OnPreProcessMessage(u)
    \/ (Tick /\ now' <= MaxIsolationTime)

SpecIsolation == InitConcurrent /\ [][NextIsolation]_vars

\* A member whose violations age: flagged messages are recorded, the clock
\* passes bans and the expiry of the violations, and the member asks for the
\* count with /violations
NextReads ==
    \/ \E u \in FrameSenders : ProcessApiKey(u)
    \/ \E t \in OneTask, u \in FrameSenders, m \in ConcurrentMessages :
          Receive(t, u, m, FALSE)
    \/ \E t \in OneTask, r \in LedgerOutcomes : GeminiReturns(t, r)
    \/ \E t \in OneTask, r \in LedgerOutcomes : DeepseekReturns(t, r)
    \/ \E u \in FrameUsers : CmdViolations(u)
    \/ Tick

SpecReads == InitConcurrent /\ [][NextReads]_vars

\* The rule set under the files it can be loaded from and under additions,
\* with a member's messages passing the local filter
RuleFiles == {DocumentFile, MissingFile, InvalidJsonFile, NotADictFile}

RuleWords == {<<"b","a","d">>, <<"n","e","w">>}

RuleCategories == {"insult", "fresh"}

RuleCombinations ==
    {<< <<"d","o">>, <<"h","w">>, "cheating", "medium" >>,
     << <<"o","k">>, <<"w","w">>, "ads", "high" >>}

InitRules ==
    /\ \E file \in RuleFiles : InitWith(file)
    /\ ~has_last_violation_date

NextRules ==
    \/ \E w \in RuleWords, c \in RuleCategories : AddStopWord(w, c, "medium")
    \/ \E c \in RuleCombinations : AddWordCombination(c[1], c[2], c[3], c[4])
    \/ \E u \in FrameSenders : Loaded /\ ProcessApiKey(u)
    \/ \E t \in OneTask, u \in FrameSenders, m \in Messages :
          Loaded /\ Receive(t, u, m, FALSE)
    \/ \E t \in OneTask, r \in LedgerOutcomes : GeminiReturns(t, r)
    \/ \E t \in OneTask, r \in LedgerOutcomes : DeepseekReturns(t, r)

SpecRules == InitRules /\ [][NextRules]_vars

\* The event loop as the code drives it.  get_gemini_response and
\* get_deepseek_response are coroutines that call the synchronous
\* client.chat.completions.create: the call does not suspend the coroutine,
\* so from the start of a classifier call to its return the thread of the
\* event loop is inside it and no other handler runs.
LoopIdle == \A s \in Tasks : task[s].pc = "idle"

LoopReceive(t, user_id, text) == LoopIdle /\ Receive(t, user_id, text, FALSE)

LoopProcessApiKey(user_id) == LoopIdle /\ ProcessApiKey(user_id)

LoopMessages == {<<"o","k">>, <<"f","o","o","l">>}

NextLoop ==
    \/ \E t \in Tasks, u \in FrameUsers, m \in LoopMessages : LoopReceive(t, u, m)
    \/ \E t \in Tasks, r \in ConcurrentOutcomes : GeminiReturns(t, r)
    \/ \E t \in Tasks, r \in ConcurrentOutcomes : DeepseekReturns(t, r)
    \/ \E u \in FrameUsers : LoopProcessApiKey(u)

SpecLoop == InitModerator /\ [][NextLoop]_vars

\* The classifiers over the lifetime of the process: a member's flagged
\* messages are handled one after the other, the classifiers answer or fail,
\* and the clock passes the bans and the expiry of the violations
NextClassifiers ==
    \/ \E u \in FrameSenders : ProcessApiKey(u)
    \/ \E t \in OneTask, u \in FrameSenders, m \in ConcurrentMessages :
          Receive(t, u, m, FALSE)
    \/ \E t \in OneTask, r \in ConcurrentOutcomes : GeminiReturns(t, r)
    \/ \E t \in OneTask, r \in ConcurrentOutcomes : DeepseekReturns(t, r)
    \/ Tick

SpecClassifiers == InitConcurrent /\ [][NextClassifiers]_vars

\* The classifier calls through the reconnection wrapper and the gateway:
\* a member's flagged messages, each request answered with any reply or none
NextGateway ==
    \/ \E u \in FrameSenders : ProcessApiKey(u)
    \/ \E t \in OneTask, u \in FrameSenders, m \in ConcurrentMessages :
          Receive(t, u, m, FALSE)
    \/ \E t \in OneTask, r \in Replies : GetGeminiResponse(t, r)
    \/ \E t \in OneTask, r \in Replies : GetDeepseekResponse(t, r)

SpecGateway == InitModerator /\ [][NextGateway]_vars

\* The handler with its response cache: a member and the administrator send
\* a clean and a flagged text and their case and whitespace variants, while
\* the clock runs up to and past the cache's ttl
AnswerMessages ==
    {<<"o","k">>, <<"O","K">>, <<"f","o","o","l">>, <<" ","F","o","o","l">>}

NextAnswers ==
    \/ \E u \in LedgerUsers : ProcessApiKey(u)
    \/ \E t \in OneTask, u \in LedgerUsers, m \in AnswerMessages : ProcessMessage(t, u, m)
    \/ \E t \in OneTask, r \in ConcurrentOutcomes : GeminiReturns(t, r)
    \/ \E t \in OneTask, r \in ConcurrentOutcomes : DeepseekReturns(t, r)
    \/ \E t \in CacheTargets(cache, cache_ttl) : t <= MaxAnswerTime /\ CacheClock(t)

SpecAnswers == InitModerator /\ [][NextAnswers]_vars

\* A Cache(max_size=CacheSize, ttl=CacheTtl) under any sequence of its calls
\* while the clock advances; two of the messages have the same key
CacheMessages == {<<"o">>, <<"O">>, <<"k">>, <<"d"," ">>, <<"h">>}

NextCache ==
    \/ \E m \in CacheMessages : CacheSet(CacheSize, m, Response)
    \/ \E m \in CacheMessages : CacheGet(CacheTtl, m)
    \/ ClearExpired(CacheTtl)
    \/ time < MaxCacheTime /\ CacheClock(time + 1)

SpecCache == Init /\ [][NextCache]_vars

\* The violation ledger of a member under the calls that write it: the
\* recording of a violation (which a database error may abort), the lazy
\* expiry of /violations, clear_violations and the scheduler's cleaner, over
\* a span longer than the cleaner's age
NextLedgerOps ==
    \/ \E u \in FrameSenders : ProcessApiKey(u)
    \/ \E u \in FrameSenders, e \in {"none", "after", "start"} :
          Len(violations) < MaxLedger /\ AddViolation(u, e)
    \/ \E u \in FrameSenders : CmdViolations(u)
    \/ \E u \in FrameSenders : ClearViolations(u)
    \/ CleanOldViolations
    \/ CleanerTick(MaxCleanerTime)

SpecLedgerOps == InitConcurrent /\ [][NextLedgerOps]_vars

----------------------------------------------------------------------------
(* Properties of the moderator, checked under SpecModerator *)

\* C1: when check_triggers reports no violation, moderate_message invokes
\* neither classifier and returns (False, None); a classifier call is only
\* ever pending for a text that check_triggers flagged.
C1_CleanNeverClassified ==
    /\ (last.moderated /\ ~last.local[1]) =>
          /\ last.gemini = NotInvoked
          /\ last.deepseek = NotInvoked
          /\ last.ai_from = "not called"
          /\ last.result = <<FALSE, None>>
    /\ \A t \in Tasks : task[t].pc # "idle" => check_triggers(task[t].text)[1]

C1_Witness ==
    /\ last.moderated
    /\ last.outcome = "answered"
    /\ ~check_triggers(last.text)[1]
    /\ last.result = <<FALSE, None>>

\* C2: whenever moderate_message returns, its is_violation is the one of
\* check_triggers, whatever the classifiers did (flagged, not flagged, failed,
\* skipped); when the classifier verdict does not flag, the returned reason is
\* the local reason.
C2_LocalVerdictStands ==
    (last.moderated /\ last.ai_from # "raised") =>
        /\ last.local = check_triggers(last.text)
        /\ last.result[1] = last.local[1]
        /\ ~last.ai[1] => last.result[2] = last.local[2]

C2_Witness ==
    /\ last.moderated
    /\ last.local[1]
    /\ last.gemini.kind = "dict"
    /\ ~last.gemini.is_violation
    /\ last.result = <<TRUE, last.local[2]>>

\* What the primary call of task t came back with in this step
GeminiGot(t) == IF task'[t].pc = "idle" THEN last'.gemini ELSE task'[t].gemini

\* C8: gemini_failures counts the consecutive failed primary invocations (a
\* failed one adds one, a successful one sets it to 0, nothing else changes
\* it); a moderate_with_ai call invokes the primary exactly when the counter
\* is below max_failures, and with the counter at max_failures it invokes
\* only the secondary (if that one's counter is below max_failures).
C8_PrimarySkippedAfterFailures ==
    [][ /\ \A t \in Tasks :
             (task[t].pc = "idle" /\ task'[t].pc # "idle") =>
                /\ (task'[t].pc = "gemini") <=> (gemini_failures < max_failures)
                /\ task'[t].pc = "gemini" =>
                      task'[t].gemini = Pending /\ task'[t].deepseek = NotInvoked
                /\ task'[t].pc = "deepseek" =>
                      /\ task'[t].gemini = NotInvoked
                      /\ task'[t].deepseek = Pending
                      /\ deepseek_failures < max_failures
        /\ ((\A t \in Tasks : task[t].pc = "idle") /\ last' # last
                  /\ last'.moderated /\ last'.local[1]) =>
                /\ gemini_failures >= max_failures
                /\ deepseek_failures >= max_failures
                /\ last'.gemini = NotInvoked
                /\ last'.deepseek = NotInvoked
        /\ gemini_failures' # gemini_failures =>
             \E t \in Tasks :
                /\ task[t].pc = "gemini"
                /\ task'[t] # task[t]
                /\ gemini_failures' =
                      IF GeminiGot(t).kind = "none" THEN gemini_failures + 1 ELSE 0
      ]_vars

C8_Witness ==
    /\ gemini_failures = max_failures
    /\ \E t \in Tasks :
          /\ task[t].pc = "deepseek"
          /\ task[t].gemini = NotInvoked
          /\ task[t].deepseek = Pending

\* C9: when the primary is invoked and returns a well-formed result, the
\* call sets gemini_failures to 0, returns the primary's verdict and does not
\* invoke the secondary, also when that verdict is no-violation.
C9_PrimaryResultIsFinal ==
    [][ \A t \in Tasks :
          (task[t].pc = "gemini" /\ task'[t] # task[t] /\ GeminiGot(t).kind = "dict") =>
             /\ gemini_failures' = 0
             /\ task'[t].pc = "idle"
             /\ last'.ai_from = "gemini"
             /\ last'.ai = <<GeminiGot(t).is_violation, GeminiGot(t).reason>>
             /\ last'.deepseek = NotInvoked
             /\ deepseek_failures' = deepseek_failures
      ]_vars

C9_Witness ==
    /\ last.gemini.kind = "dict"
    /\ ~last.gemini.is_violation
    /\ last.ai = <<FALSE, last.gemini.reason>>
    /\ last.deepseek = NotInvoked
    /\ gemini_failures = 0
    /\ deepseek_failures > 0

\* Both classifiers unavailable in the finished call: each one failed its
\* call or was skipped
BothUnavailable ==
    /\ last.moderated
    /\ last.local[1]
    /\ last.gemini.kind \in {"not invoked", "none"}
    /\ last.deepseek.kind \in {"not invoked", "none"}

\* The verdicts moderate_with_ai returns for a classifier's no-violation answer
NoViolationVerdicts ==
    {<<r.is_violation, r.reason>> : r \in {o \in Outcomes : o.kind = "dict" /\ ~o.is_violation}}

\* C10 as stated: with both classifiers unavailable, moderate_with_ai raises
\* nothing and returns an outcome that differs from every no-violation verdict.
C10_UnavailableIsDistinct ==
    BothUnavailable =>
        /\ last.ai_from # "raised"
        /\ last.ai \notin NoViolationVerdicts

\* C10, amended: with both classifiers unavailable, moderate_with_ai raises
\* nothing and returns (False, None), the pair it also returns for a
\* no-violation answer without reason; moderate_message then returns the
\* local verdict.
C10_UnavailableIsFalseNone ==
    BothUnavailable =>
        /\ last.ai_from = "unavailable"
        /\ last.outcome # "error"
        /\ last.ai = <<FALSE, None>>
        /\ last.ai \in NoViolationVerdicts
        /\ last.result = <<TRUE, last.local[2]>>

C10_Witness ==
    /\ BothUnavailable
    /\ last.gemini.kind = "none"
    /\ last.deepseek.kind = "none"
    /\ last.ai = <<FALSE, None>>

\* a occurs in s, and b occurs in s after the end of that occurrence of a
contains_in_order(s, a, b) ==
    \E i \in 0..(Len(s) - Len(a)) :
        /\ SubSeq(s, i + 1, i + Len(a)) = a
        /\ \E j \in (i + Len(a))..(Len(s) - Len(b)) :
              SubSeq(s, j + 1, j + Len(b)) = b

\* C11: when check_triggers flags a message and the classifier verdict flags
\* it too, the reason moderate_message returns contains the local reason and,
\* after it, the classifier's reason (as str() renders it).
C11_CombinedReason ==
    (last.moderated /\ last.local[1] /\ last.ai[1] /\ last.ai_from # "raised") =>
        /\ last.result[1]
        /\ contains(last.result[2], last.local[2])
        /\ contains(last.result[2], format(last.ai[2]))
        /\ contains_in_order(last.result[2], last.local[2], format(last.ai[2]))

C11_Witness ==
    /\ last.moderated
    /\ last.local[1]
    /\ last.local[2] # None
    /\ last.ai = <<TRUE, <<"r","u","d","e">> >>
    /\ contains_in_order(last.result[2], last.local[2], <<"r","u","d","e">>)

----------------------------------------------------------------------------
(* Properties of the ledger, checked under Spec *)

\* This step ran add_violation for user u
AddCalled(u) ==
    /\ last'.add_called
    /\ last'.user_id = u
    /\ \/ last' # last
       \/ \E t \in Tasks : task[t].pc # "idle" /\ task'[t].pc = "idle"

\* The violation window of a row is open / has run out
WindowOpen(row) ==
    row.exists /\ row.violations_expire_at # Null /\ now <= row.violations_expire_at
WindowExpired(row) ==
    row.exists /\ row.violations_expire_at # Null /\ now > row.violations_expire_at

\* The escalation table: <<outcome, minutes of ban>>
ExpectedAction(n) ==
    CASE n = 1 -> <<"warning", 0>>
      [] n = 2 -> <<"ban", 5>>
      [] n = 3 -> <<"ban", 10>>
      [] n = 4 -> <<"ban", 30>>
      [] n = 5 -> <<"ban", 60>>

C4_FivePlusBanned ==
    (last.add_called /\ last.add_ret[1] /\ last.add_ret[2] >= 5) =>
        /\ last.outcome = "ban"
        /\ last.ban_minutes = 60

\* C5: add_violation called after the stored violations_expire_at returns
\* count 1 and stores count 1 with the expiry now + 24h, whatever the count was.
C5_ExpiredWindowRestarts ==
    [][ \A u \in Users :
          (AddCalled(u) /\ WindowExpired(users[u])) =>
             /\ last'.add_ret = <<TRUE, 1>>
             /\ users'[u].violations_count = 1
             /\ users'[u].violations_expire_at = now + hours24
      ]_vars

C5_Witness ==
    /\ Len(violations) >= 3
    /\ last.add_ret = <<TRUE, 1>>
    /\ violations[Len(violations)].violation_date = now
    /\ violations[Len(violations) - 1].violation_date + hours24 < now
    /\ violations[Len(violations) - 2].violation_date + hours24 < now
    /\ users[last.user_id].violations_count = 1
    /\ users[last.user_id].violations_expire_at = now + hours24

\* C6 as stated: a recorded violation inside an open window increments the
\* count and leaves violations_expire_at as the first violation set it.
C6_ExpirySetByFirstViolation ==
    [][ \A u \in Users :
          (AddCalled(u) /\ last'.add_ret[1] /\ WindowOpen(users[u])
               /\ users[u].violations_count >= 1) =>
             /\ users'[u].violations_count = users[u].violations_count + 1
             /\ users'[u].violations_expire_at = users[u].violations_expire_at
      ]_vars

\* C7: for a banned row with ban_until, is_banned returns (True, reason) and
\* changes nothing while now <= ban_until; with now > ban_until it returns
\* (False, None) and stores is_banned = 0 with ban_reason and ban_until NULL,
\* and the next call returns (False, None) and changes nothing; every banned
\* row has a ban_until, and a row that is not banned reads (False, None).
C7_BanLapsesOnce ==
    \A u \in Users :
        LET row == users[u]
            r == is_banned(users, u)
            r2 == is_banned(r.users, u)
        IN  row.exists =>
            /\ row.is_banned => row.ban_until # Null
            /\ (row.is_banned /\ now <= row.ban_until) =>
                  /\ r.ret = <<TRUE, row.ban_reason>>
                  /\ r.users = users
            /\ (row.is_banned /\ now > row.ban_until) =>
                  /\ r.ret = <<FALSE, None>>
                  /\ r.users = [users EXCEPT ![u].is_banned = FALSE,
                                             ![u].ban_reason = None,
                                             ![u].ban_until = Null]
                  /\ r2.ret = <<FALSE, None>>
                  /\ r2.users = r.users
            /\ ~row.is_banned =>
                  /\ r.ret = <<FALSE, None>>
                  /\ r.users = users

\* A ban was applied (the count says so), has lapsed, and the is_banned call
\* of a later message has cleared it
C7_Witness ==
    /\ last.outcome \in {"answered", "cached"}
    /\ users[last.user_id].exists
    /\ users[last.user_id].violations_count \in 2..5
    /\ ~users[last.user_id].is_banned
    /\ users[last.user_id].ban_reason = None
    /\ users[last.user_id].ban_until = Null

\* C12: process_message never calls the moderator for an admin, records no
\* violation of an admin and bans no admin, whatever the text: no classifier
\* call is pending for an admin, an admin's handler ends without moderation
\* and without add_violation, and an admin with a key who is not served from
\* the cache is answered by the assistant model.
C12_AdminBypass ==
    /\ \A t \in Tasks : task[t].pc # "idle" => ~is_admin(task[t].user_id)
    /\ (last.outcome # "none" /\ is_admin(last.user_id)) =>
          /\ ~last.moderated
          /\ ~last.add_called
          /\ last.ban_minutes = 0
          /\ last.outcome \in {"no_key", "cached", "answered"}
    /\ \A i \in 1..Len(violations) : ~is_admin(violations[i].user_id)
    /\ \A a \in Admins :
          users[a].exists => ~users[a].is_banned /\ users[a].violations_count = 0

\* An admin's text that check_triggers flags was answered, on a database that
\* records violations
C12_Witness ==
    /\ has_last_violation_date
    /\ is_admin(last.user_id)
    /\ check_triggers(last.text)[1]
    /\ last.outcome = "answered"
    /\ ~last.moderated
    /\ \E i \in 1..Len(violations) : ~is_admin(violations[i].user_id)

\* C13: when add_violation reports failure, process_message answers with the
\* error reply only: no warning, no ban, no log entry; and a user only ever
\* becomes banned in a step whose add_violation succeeded, for the minutes
\* that get_ban_duration gives for the returned count.
C13_NoBanWithoutRecord ==
    [][ \A u \in Users :
          /\ (AddCalled(u) /\ ~last'.add_ret[1]) =>
                /\ last'.outcome = "record_failed"
                /\ last'.ban_minutes = 0
                /\ violations' = violations
                /\ users'[u].exists = users[u].exists
                /\ users[u].exists =>
                      /\ users'[u].is_banned => users[u].is_banned
                      /\ users'[u].ban_until \in {users[u].ban_until, Null}
          /\ (users'[u].exists /\ users'[u].is_banned
                  /\ ~(users[u].exists /\ users[u].is_banned)) =>
                /\ AddCalled(u)
                /\ last'.add_ret[1]
                /\ last'.add_ret[2] = users'[u].violations_count
                /\ last'.outcome = "ban"
                /\ last'.ban_minutes = get_ban_duration(last'.add_ret[2])
                /\ last'.ban_minutes > 0
                /\ users'[u].ban_until = now + last'.ban_minutes
                /\ Len(violations') = Len(violations) + 1
      ]_vars

\* add_violation failed for a flagged text of a user with a key
C13_Witness ==
    /\ ~has_last_violation_date
    /\ last.add_called
    /\ last.add_ret = <<FALSE, 0>>
    /\ last.outcome = "record_failed"
    /\ check_triggers(last.text)[1]
    /\ users[last.user_id].exists
    /\ ~users[last.user_id].is_banned
    /\ violations = <<>>

----------------------------------------------------------------------------
(* Properties of the rate limiter, checked under SpecLimiter *)

\* The tier check_limit applies to a user type
TierOf(user_type) ==
    IF user_type \in DOMAIN limits THEN limits[user_type] ELSE limits["default"]

\* The requests of u recorded inside the last interval seconds at instant t
Inside(u, interval, t) ==
    {i \in 1..Len(requests[u]) : t - requests[u][i][1] < interval}

\* C14 as stated: for every tier, check_limit returns (True, None) while fewer
\* than M requests are recorded inside the last I seconds, and (False, t)
\* with 0 < t <= I once M are, t being the time until the oldest retained
\* request leaves the window.
C14_CheckLimitWindow ==
    \A u \in Users, ty \in UserTypes, current_time \in ClockReads :
        LET c == check_limit(requests, u, ty, time, current_time)
            M == TierOf(ty).requests
            I == TierOf(ty).interval
            inside == Inside(u, I, current_time)
        IN  /\ Cardinality(inside) < M => c.ret = <<TRUE, None>>
            /\ Cardinality(inside) >= M =>
                  /\ ~c.ret[1]
                  /\ c.ret[2] > 0
                  /\ c.ret[2] <= I
                  /\ c.ret[2] = min_ts(c.requests[u]) + I - current_time

\* A step of on_pre_process_message for user u
Checked(u) ==
    /\ last_check'.user_id = u
    /\ requests' # requests \/ limiter_violations' # limiter_violations

\* C15: on_pre_process_message records a request exactly when check_limit
\* allowed it, after the check, and in every state the requests of a user
\* recorded inside the current window number at most the maximum of the
\* user's tier.
C15_RecordOnlyAllowed ==
    [][ \A u \in Users :
          LET tier == IF is_admin(u) THEN limits.admin ELSE limits.default
              kept == clean_old_requests(requests, u, tier.interval, time)[u]
              inside == {i \in 1..Len(requests'[u]) :
                            time' - requests'[u][i][1] < tier.interval}
          IN  /\ Cardinality(inside) <= tier.requests
              /\ Checked(u) =>
                    /\ last_check'.allowed =>
                          /\ sum_counts(kept) < tier.requests
                          /\ requests'[u] = Append(kept, <<time', 1>>)
                          /\ limiter_violations' = limiter_violations
                    /\ ~last_check'.allowed =>
                          /\ requests'[u] = kept
                          /\ limiter_violations'[u] = limiter_violations[u] + 1
      ]_vars

\* The 21st message of a default user inside the window was turned away
C15_Witness ==
    /\ ~last_check.allowed
    /\ ~is_admin(last_check.user_id)
    /\ Len(requests[last_check.user_id]) = limits.default.requests
    /\ Cardinality(Inside(last_check.user_id, limits.default.interval, time))
          = limits.default.requests
    /\ limiter_violations[last_check.user_id] = 1

----------------------------------------------------------------------------
(* Properties of concurrent handlers, checked under SpecConcurrent *)

\* The log entries of user u
EntriesOf(log, u) == {i \in 1..Len(log) : log[i].user_id = u}

\* C16: with several add_violation calls of one user in flight inside one
\* open window no increment is lost: the log changes only by one appended
\* entry per step, and such a step raises the stored count of the entry's
\* user by exactly one and returns the new count; the count changes upward
\* in no other step.
C16_NoLostIncrement ==
    [][ /\ violations' # violations =>
              /\ Len(violations') = Len(violations) + 1
              /\ SubSeq(violations', 1, Len(violations)) = violations
              /\ LET u == violations'[Len(violations')].user_id IN
                    /\ last'.add_called
                    /\ last'.user_id = u
                    /\ WindowOpen(users[u]) =>
                          users'[u].violations_count = users[u].violations_count + 1
                    /\ last'.add_ret = <<TRUE, users'[u].violations_count>>
        /\ \A u \in Users :
              (users[u].exists /\ users'[u].exists
                  /\ users'[u].violations_count > users[u].violations_count) =>
                 Cardinality(EntriesOf(violations', u))
                    = Cardinality(EntriesOf(violations, u)) + 1
      ]_vars

\* Three calls were recorded with counts 1, 2, 3 although the second one
\* banned the user: the third message was in flight when the ban was applied
C16_Witness ==
    /\ now = 0
    /\ Len(violations) = 3
    /\ last.add_ret = <<TRUE, 3>>
    /\ users[last.user_id].violations_count = 3
    /\ users[last.user_id].is_banned
    /\ Cardinality(EntriesOf(violations, last.user_id)) = 3

\* What the secondary call of task t came back with in this step
DeepseekGot(t) == last'.deepseek

\* C17: with moderate_with_ai calls interleaving at the classifier awaits,
\* a failed invocation raises its classifier's counter by exactly one from
\* the value it has at the update, a successful one leaves it at 0, neither
\* touches the other classifier's counter, and nothing else changes a counter.
C17_NoLostCounterUpdate ==
    [][ /\ \A t \in Tasks :
              /\ (task[t].pc = "gemini" /\ task'[t] # task[t]) =>
                    /\ gemini_failures' =
                          IF GeminiGot(t).kind = "none" THEN gemini_failures + 1 ELSE 0
                    /\ deepseek_failures' = deepseek_failures
              /\ (task[t].pc = "deepseek" /\ task'[t] # task[t]) =>
                    /\ deepseek_failures' =
                          IF DeepseekGot(t).kind = "none" THEN deepseek_failures + 1 ELSE 0
                    /\ gemini_failures' = gemini_failures
        /\ gemini_failures' # gemini_failures =>
              \E t \in Tasks : task[t].pc = "gemini" /\ task'[t] # task[t]
        /\ deepseek_failures' # deepseek_failures =>
              \E t \in Tasks : task[t].pc = "deepseek" /\ task'[t] # task[t]
      ]_vars

\* A primary call is pending whose test read the counter before another
\* call's failure raised it
C17_Witness ==
    \E t \in Tasks :
        /\ task[t].pc = "gemini"
        /\ task[t].tested = 0
        /\ gemini_failures = 2
        /\ last.gemini.kind = "none"

----------------------------------------------------------------------------
(* Properties of the local filter, checked under SpecFilter *)

\* The words of the text that moderate_message has just filtered
ReceivedWords ==
    IF last.moderated THEN {split(last.text)[i] : i \in 1..Len(split(last.text))}
    ELSE {}

StopWordsOf(k) ==
    {rules.stop_words[k].words[j] : j \in 1..Len(rules.stop_words[k].words)}

\* S is a substring of lowercased W, or lowercased W is a substring of S
Matches(W, S) == contains(lower(W), S) \/ contains(S, lower(W))

MatchedCategories(W) ==
    {k \in 1..Len(rules.stop_words) : \E S \in StopWordsOf(k) : Matches(W, S)}

\* C18: check_word(W) reports a violation if and only if len(W) > 3 and some
\* configured stop word is a substring of lowercased W or has lowercased W as
\* a substring; a word of length <= 3 is never flagged, and a flagged word is
\* reported with the category of a stop word it matches.
C18_CheckWordGate ==
    \A W \in ReceivedWords :
        /\ check_word(W)[1] <=> (Len(W) > 3 /\ MatchedCategories(W) # {})
        /\ Len(W) <= 3 => ~check_word(W)[1]
        /\ check_word(W)[1] =>
              \E k \in MatchedCategories(W) :
                  check_word(W)[2] = <<rules.stop_words[k].category>>

\* The text holds the word w in some letter case
has_word(m, w) ==
    \E i \in 1..Len(m), n \in 1..Len(w) :
        i + n - 1 <= Len(m) /\ lower(SubSeq(m, i, i + n - 1)) = w

\* The configured combinations both of whose words the text holds
CombinationsIn(m) ==
    {k \in 1..Len(rules.word_combinations) :
        /\ has_word(m, rules.word_combinations[k].words[1])
        /\ has_word(m, rules.word_combinations[k].words[2])}

\* The configured combinations exactly one of whose words the text holds
HalfCombinationsIn(m) ==
    {k \in 1..Len(rules.word_combinations) :
        has_word(m, rules.word_combinations[k].words[1])
            # has_word(m, rules.word_combinations[k].words[2])}

Cites(reason, x) == \E i \in 1..Len(reason) : reason[i] = x

CombinationReason(reason) ==
    reason # None /\ reason[1] = "Forbidden word combination: '"

\* C19: a message that contains both words of a configured combination, in
\* either order, with any text between them and in any letter case, is
\* flagged by check_triggers with a reason citing that combination's
\* category; a message containing only one of the two words is not flagged by
\* the combination check.
C19_EveryCombinationCited ==
    last.moderated =>
        /\ \A k \in CombinationsIn(last.text) :
              /\ last.local[1]
              /\ Cites(last.local[2], rules.word_combinations[k].category)
        /\ \A k \in HalfCombinationsIn(last.text) :
              ~check_word_combinations(last.text)[1]

\* C19, amended: a message whose lowercased text contains both words of a
\* configured combination, in either order and with any text between them, is
\* flagged by check_triggers with a reason citing the words, the category and
\* the severity of the first such combination in declaration order; a message
\* whose lowercased text lacks a word of every configured combination is not
\* flagged by the combination check.
C19_FirstCombinationCited ==
    last.moderated =>
        LET combos == rules.word_combinations
            ks == {k \in 1..Len(combos) :
                      /\ contains(lower(last.text), combos[k].words[1])
                      /\ contains(lower(last.text), combos[k].words[2])}
            first == CHOOSE k \in ks : \A m \in ks : k <= m
        IN  IF ks # {}
            THEN /\ last.local[1]
                 /\ CombinationReason(last.local[2])
                 /\ contains_in_order(last.local[2], combos[first].words[1],
                                      combos[first].words[2])
                 /\ Cites(last.local[2], combos[first].category)
                 /\ Cites(last.local[2], combos[first].severity)
            ELSE /\ ~check_word_combinations(last.text)[1]
                 /\ ~CombinationReason(last.local[2])

\* Both combinations in a text, the second one first: the reason cites the
\* first combination of the rule document
C19_Witness ==
    /\ last.moderated
    /\ Cardinality(CombinationsIn(last.text)) = 2
    /\ ~has_word(SubSeq(last.text, 1, 7), rules.word_combinations[1].words[1])
    /\ last.local[1]
    /\ Cites(last.local[2], rules.word_combinations[1].category)
    /\ ~Cites(last.local[2], rules.word_combinations[2].category)

\* The checks of check_triggers, numbered in the order of the claim: 1 the
\* word combinations, 2 the stop-word tokens, 3 .. 2 + n the n spam patterns
\* as declared, then the length trigger and the caps trigger
LengthCheck == 3 + Len(get_spam_patterns)
CapsCheck == 4 + Len(get_spam_patterns)

\* The checks that the text m satisfies, each judged on its own
SatisfiedChecks(m) ==
    {c \in 1..CapsCheck :
        CASE c = 1 -> CombinationsIn(m) # {}
          [] c = 2 -> \E i \in 1..Len(split(m)) :
                          /\ Len(lower(split(m)[i])) > 3
                          /\ MatchedCategories(split(m)[i]) # {}
          [] c = LengthCheck -> Len(m) > 500
          [] c = CapsCheck ->
                 2 * Cardinality({i \in 1..Len(m) : m[i] \in UpperChars}) > Len(m)
          [] OTHER -> contains(m, get_spam_patterns[c - 2].pattern)}

\* The check that a reason names
NamedCheck(reason) ==
    CASE reason[1] = "Forbidden word combination: '" -> 1
      [] reason[1] = "Forbidden word: '" -> 2
      [] reason[1] = "Spam pattern: " ->
             2 + (CHOOSE k \in 1..Len(get_spam_patterns) :
                      get_spam_patterns[k].description = reason[2])
      [] reason[1] = "Moderation trigger: " /\ reason[2] = "long message" -> LengthCheck
      [] reason[1] = "Moderation trigger: " /\ reason[2] = "caps" -> CapsCheck
      [] OTHER -> 0

\* C20: check_triggers evaluates its checks in the order word combination,
\* stop-word token, spam patterns in declaration order, length trigger, caps
\* trigger, and stops at the first hit: the reason it returns names the
\* earliest check in that order that the message satisfies, and it returns
\* no violation only if the message satisfies none of them.
C20_FirstHitWins ==
    last.moderated =>
        LET sat == SatisfiedChecks(last.text)
        IN  IF sat = {}
            THEN last.local = <<FALSE, None>>
            ELSE /\ last.local[1]
                 /\ NamedCheck(last.local[2]) \in sat
                 /\ \A c \in sat : NamedCheck(last.local[2]) <= c

\* A text that a spam pattern and the caps trigger both flag, reported as spam
C20_Witness ==
    /\ last.moderated
    /\ Cardinality(SatisfiedChecks(last.text)) >= 2
    /\ CapsCheck \in SatisfiedChecks(last.text)
    /\ last.local[1]
    /\ NamedCheck(last.local[2]) = 3

----------------------------------------------------------------------------
(* Properties of the rate limiter next to the ledger, checked under        *)
(* SpecFrame                                                               *)

\* C21: a rate-limit denial raises only RateLimiter.violations[user], by one,
\* and changes no user's violations_count, log entries or ban state; the
\* counter never decreases as time passes and returns to zero only through
\* reset_violations.
C21_DenialCounterIndependent ==
    [][ \A u \in Users :
          /\ limiter_violations'[u] > limiter_violations[u] =>
                /\ limiter_violations'[u] = limiter_violations[u] + 1
                /\ \A v \in Users \ {u} : limiter_violations'[v] = limiter_violations[v]
                /\ ~last_check'.allowed /\ last_check'.user_id = u
                /\ Len(requests'[u]) <= Len(requests[u])
                /\ users' = users /\ violations' = violations
                /\ handler_vars' = handler_vars
          /\ (~last_check'.allowed /\ last_check'.user_id = u
                  /\ <<requests, last_check>>' # <<requests, last_check>>) =>
                limiter_violations'[u] = limiter_violations[u] + 1
          /\ limiter_violations'[u] < limiter_violations[u] =>
                /\ limiter_violations'[u] = 0
                /\ <<time, requests, last_check>>' = <<time, requests, last_check>>
                /\ handler_vars' = handler_vars
          /\ time' # time => limiter_violations'[u] >= limiter_violations[u]
          /\ (time' # time /\ last_check' = last_check) =>
                limiter_violations'[u] = limiter_violations[u]
      ]_vars

\* A banned member with two recorded violations whose flood was turned away
\* twice, a minute later
C21_Witness ==
    /\ limiter_violations[1] = 2
    /\ ~last_check.allowed
    /\ time >= 60
    /\ users[1].exists /\ users[1].is_banned /\ users[1].violations_count = 2
    /\ Len(violations) = 2

----------------------------------------------------------------------------
(* Properties of two members side by side, checked under SpecIsolation     *)

\* The log entries of user u
LogOf(log, u) == SelectSeq(log, LAMBDA e : e.user_id = u)

\* The step changes the moderation record, the log entries or the rate state
\* of user u
Touched(u) ==
    \/ users'[u] # users[u]
    \/ LogOf(violations', u) # LogOf(violations, u)
    \/ requests'[u] # requests[u]
    \/ limiter_violations'[u] # limiter_violations[u]

\* Each operation applied for user a in the present state leaves user b alone
OperationsLeave(a, b) ==
    LET added == add_violation(users, violations, a, "content_policy", "r", <<"m">>)
        cleared == clear_violations(users, violations, a)
        checked == check_limit(requests, a, "default", time, time)
    IN  /\ added.users[b] = users[b]
        /\ LogOf(added.violations, b) = LogOf(violations, b)
        /\ ban_user(users, a, "r", 5).users[b] = users[b]
        /\ unban_user(users, a).users[b] = users[b]
        /\ is_banned(users, a).users[b] = users[b]
        /\ cleared.users[b] = users[b]
        /\ LogOf(cleared.violations, b) = LogOf(violations, b)
        /\ checked.requests[b] = requests[b]
        /\ add_request(requests, a, time)[b] = requests[b]
        /\ limiter_add_violation(limiter_violations, a)[b] = limiter_violations[b]

\* C22: add_violation, ban_user, unban_user, is_banned, clear_violations,
\* check_limit, add_request and RateLimiter.add_violation for one user leave
\* every other user's moderation record, log entries and rate state
\* unchanged, and a failure while handling one user's message does not
\* prevent another user's message from being handled.
C22_UsersIsolated ==
    /\ [](\A a \in Users, b \in Users : a # b => OperationsLeave(a, b))
    /\ [][ /\ \A a \in Users, b \in Users : (Touched(a) /\ Touched(b)) => a = b
           /\ \A b \in Users :
                 /\ (Touched(b) /\ last' # last) => last'.user_id = b
                 /\ (Touched(b) /\ last_check' # last_check) => last_check'.user_id = b
           \* a handler that ended with both classifiers failing has returned:
           \* no task is left waiting, which is all that the handling of the
           \* next message, of whatever user, requires
           /\ (last' # last /\ last'.ai_from = "unavailable") =>
                 \A t \in Tasks : task'[t].pc = "idle"
      ]_vars

\* One member is banned after two violations and was turned away twice by the
\* limiter; the other, with one violation and one recorded request, had a
\* message handled last, both classifiers failing, after the clock has moved
C22_Witness ==
    /\ users[1].exists /\ users[1].is_banned /\ users[1].violations_count = 2
    /\ limiter_violations[1] = 2
    /\ users[3].exists /\ users[3].violations_count = 1 /\ ~users[3].is_banned
    /\ Len(requests[3]) = 1
    /\ Len(LogOf(violations, 1)) = 2 /\ Len(LogOf(violations, 3)) = 1
    /\ last.user_id = 3 /\ last.ai_from = "unavailable"
    /\ now > 0

\* The ban columns of user u in table tbl
BanState(tbl, u) ==
    IF tbl[u].exists THEN <<tbl[u].is_banned, tbl[u].ban_reason, tbl[u].ban_until>>
    ELSE None

\* C25: after clear_violations(u) succeeds, u's violations_count is 0 and u
\* has no violation log entries, whatever the state before, and u's ban
\* state is what it was.
C25_ClearViolationsEffect ==
    /\ [](\A u \in Users :
            LET r == clear_violations(users, violations, u)
            IN  r.ret => /\ get_user_violations_count(r.users, u) = 0
                         /\ LogOf(r.violations, u) = <<>>
                         /\ BanState(r.users, u) = BanState(users, u)
                         /\ r.users[u].exists = users[u].exists)
    /\ [][ \A u \in Users :
             (last'.outcome = "cleared" /\ last'.user_id = u /\ last' # last) =>
               /\ get_user_violations_count(users', u) = 0
               /\ LogOf(violations', u) = <<>>
               /\ BanState(users', u) = BanState(users, u)
      ]_vars

\* The violations of a banned member were cleared: the ban stands, the count
\* is 0 and only the other member's entry is left in the log
C25_Witness ==
    /\ last.outcome = "cleared" /\ last.user_id = 1
    /\ users[1].exists /\ users[1].is_banned /\ users[1].ban_until > 0
    /\ users[1].violations_count = 0
    /\ LogOf(violations, 1) = <<>>
    /\ Len(LogOf(violations, 3)) = 1

----------------------------------------------------------------------------
(* Properties of the reads of the violation count, checked under SpecReads *)

\* The violations of user u have expired
Expired(u) ==
    /\ users[u].exists
    /\ users[u].violations_expire_at # Null
    /\ now > users[u].violations_expire_at

----------------------------------------------------------------------------
(* Properties of the rule set, checked under SpecRules *)

\* C24: add_stop_word(w, c) called twice, or add_word_combination(a, b, c, s)
\* called twice, leaves the rule set equal to that after the first call, and
\* every call that changes the rule set in memory also saves it.
C24_AdditionsIdempotent ==
    /\ [](Loaded =>
            /\ \A w \in RuleWords, c \in RuleCategories :
                  LET r1 == add_stop_word(rules, w, c, "medium")
                      r2 == add_stop_word(r1.rules, w, c, "medium")
                  IN  /\ r2.rules = r1.rules /\ ~r2.saved
                      /\ r1.rules # rules => r1.saved
                      /\ r1.raised => r1.rules = rules
            /\ \A c \in RuleCombinations :
                  LET r1 == add_word_combination(rules, c[1], c[2], c[3], c[4])
                      r2 == add_word_combination(r1.rules, c[1], c[2], c[3], c[4])
                  IN  /\ r2.rules = r1.rules /\ ~r2.saved
                      /\ r1.rules # rules => r1.saved)
    /\ [][ /\ rules' # rules =>
                 /\ rule_call'.saved
                 /\ rules_file' = save_rules(rules')
                 /\ load_rules(rules_file') = rules'
           /\ (rule_call'.op # "__init__" /\ rule_call'.op = rule_call.op
                   /\ rule_call'.args = rule_call.args) =>
                 /\ rules' = rules
                 /\ rules_file' = rules_file
      ]_vars

\* add_stop_word of a new word in a new category was called again after it
\* had added both: nothing was saved the second time, and the file holds
\* the rule set
C24_Witness ==
    /\ rule_call.op = "add_stop_word"
    /\ rule_call.args = << <<"n","e","w">>, "fresh", "medium" >>
    /\ ~rule_call.raised /\ ~rule_call.saved
    /\ category_index(rules, "fresh") # 0
    /\ rules.stop_words[category_index(rules, "fresh")].words = << <<"n","e","w">> >>
    /\ rules_file = save_rules(rules)

\* With the rule set in memory the local filter flags message only through the
\* heuristic triggers
OnlyHeuristics(message) ==
    /\ ~check_word_combinations(message)[1]
    /\ ~check_partial_matches(message)[1]
    /\ ~check_spam(message)[1]
    /\ check_triggers(message) = check_heuristics(message)
    /\ check_triggers(message)[1] = (trigger_long(message) \/ trigger_caps(message))

\* C26: when the rule document is missing or malformed, loading raises
\* nothing and yields an empty rule set, and with an empty rule set
\* check_triggers flags a message only through the heuristic triggers (length,
\* caps ratio): the combination, stop-word and spam checks never fire.
C26_MalformedFallsBack ==
    /\ (rule_call.op = "__init__" /\ rules_file.kind # "rules") =>
          /\ ~rule_call.raised
          /\ rules = EmptyRules
    /\ (Loaded /\ rules = EmptyRules) =>
          \A m \in Messages \cup {LongText, LongCaps, FullText} : OnlyHeuristics(m)

----------------------------------------------------------------------------
(* Properties of the event loop, checked under SpecLoop *)

\* C27: while the handling of one user's message waits for a classifier
\* response, the handling of another user's message can take steps and
\* complete: here, the clean message of a registered user can be handled in
\* the other task.
C27_PendingNeverBlocks ==
    \A a \in Tasks, b \in FrameUsers :
        (/\ task[a].pc \in {"gemini", "deepseek"}
         /\ task[a].user_id # b
         /\ users[b].exists
         /\ \E t \in Tasks \ {a} : task[t].pc = "idle")
        => ENABLED (\E t \in Tasks \ {a} : LoopReceive(t, b, <<"o","k">>))

----------------------------------------------------------------------------
(* Properties of the fallback between the classifiers, checked under       *)
(* SpecModerator                                                           *)

\* C28: when the primary is invoked and its call fails, moderate_with_ai adds
\* exactly one to gemini_failures and, in the same call, invokes the
\* secondary if deepseek_failures is below max_failures; it returns the
\* secondary's verdict and sets deepseek_failures to 0 on success, or adds
\* one to deepseek_failures on failure; the counter of a classifier that is
\* skipped is left unchanged.
C28_FallbackInSameCall ==
    [][ /\ \A t \in Tasks :
              (task[t].pc = "gemini" /\ task'[t] # task[t] /\ GeminiGot(t).kind = "none") =>
                 /\ gemini_failures' = gemini_failures + 1
                 /\ deepseek_failures' = deepseek_failures
                 /\ IF deepseek_failures < max_failures
                      THEN /\ task'[t].pc = "deepseek"
                           /\ task'[t].deepseek = Pending
                           /\ task'[t].text = task[t].text
                           /\ task'[t].user_id = task[t].user_id
                           /\ last' = last
                      ELSE /\ task'[t].pc = "idle"
                           /\ last'.deepseek = NotInvoked
                           /\ last'.ai_from = "unavailable"
                           /\ last'.ai = unavailable_result
        /\ \A t \in Tasks :
              (task[t].pc = "deepseek" /\ task'[t] # task[t]) =>
                 /\ task'[t].pc = "idle"
                 /\ gemini_failures' = gemini_failures
                 /\ last'.gemini = task[t].gemini
                 /\ last'.text = task[t].text
                 /\ DeepseekGot(t).kind = "dict" =>
                       /\ deepseek_failures' = 0
                       /\ last'.ai_from = "deepseek"
                       /\ last'.ai = <<DeepseekGot(t).is_violation, DeepseekGot(t).reason>>
                 /\ DeepseekGot(t).kind = "none" =>
                       /\ deepseek_failures' = deepseek_failures + 1
                       /\ last'.ai_from = "unavailable"
                       /\ last'.ai = unavailable_result
        /\ \A t \in Tasks :
              (task[t].pc = "idle" /\ task'[t].pc = "deepseek") =>
                 /\ gemini_failures >= max_failures
                 /\ gemini_failures' = gemini_failures
                 /\ task'[t].gemini = NotInvoked
        /\ gemini_failures' # gemini_failures =>
              \E t \in Tasks : task[t].pc = "gemini" /\ task'[t] # task[t]
        /\ deepseek_failures' # deepseek_failures =>
              \E t \in Tasks : task[t].pc = "deepseek" /\ task'[t] # task[t]
      ]_vars

\* A call in which the primary failed for the second time in a row and the
\* secondary returned a violation
C28_Witness ==
    /\ last.gemini.kind = "none"
    /\ last.deepseek.kind = "dict" /\ last.deepseek.is_violation
    /\ last.ai_from = "deepseek"
    /\ last.ai = <<TRUE, last.deepseek.reason>>
    /\ gemini_failures = 2
    /\ deepseek_failures = 0

----------------------------------------------------------------------------
(* Properties of the classifier replies, checked under SpecModerator *)

\* The replies that arrive and are not a JSON object
UnstructuredReplies == {r \in Replies : r.kind \in {"not json", "json null", "json other"}}

\* C29: a classifier response that is reachable but does not parse as the
\* structured result is treated as (no violation, no reason): the failure
\* counter of that classifier is not incremented but set to 0, and the other
\* classifier is not consulted.
C29_UnstructuredIsNoViolation ==
    [][ \A t \in Tasks, r \in UnstructuredReplies :
          /\ (task[t].pc = "gemini" /\ task'[t] # task[t]
                  /\ GeminiGot(t) = parse_reply(r)) =>
                /\ gemini_failures' = 0
                /\ task'[t].pc = "idle"
                /\ last'.ai_from = "gemini" /\ last'.ai = <<FALSE, None>>
                /\ last'.deepseek = NotInvoked
                /\ deepseek_failures' = deepseek_failures
          /\ (task[t].pc = "deepseek" /\ task'[t] # task[t]
                  /\ DeepseekGot(t) = parse_reply(r)) =>
                /\ deepseek_failures' = 0
                /\ task'[t].pc = "idle"
                /\ last'.ai_from = "deepseek" /\ last'.ai = <<FALSE, None>>
                /\ gemini_failures' = gemini_failures
      ]_vars

----------------------------------------------------------------------------
(* Properties of the classifier counters over time, checked under          *)
(* SpecClassifiers                                                         *)

\* C30: a classifier's failure counter changes only as the outcome of an
\* invocation of that classifier, never by the passage of time; once it has
\* reached max_failures the classifier is not invoked again and the counter
\* stays; once both counters are at max_failures every moderate_with_ai call
\* returns the unavailable result without invoking a classifier.
C30_ThresholdIsPermanent ==
    /\ [](gemini_failures <= max_failures /\ deepseek_failures <= max_failures)
    /\ [][ /\ gemini_failures' # gemini_failures =>
                 \E t \in Tasks : task[t].pc = "gemini" /\ task'[t] # task[t]
           /\ deepseek_failures' # deepseek_failures =>
                 \E t \in Tasks : task[t].pc = "deepseek" /\ task'[t] # task[t]
           /\ now' # now =>
                 /\ gemini_failures' = gemini_failures
                 /\ deepseek_failures' = deepseek_failures
           /\ gemini_failures >= max_failures =>
                 /\ gemini_failures' = gemini_failures
                 /\ \A t \in Tasks : task[t].pc # "gemini" /\ task'[t].pc # "gemini"
           /\ deepseek_failures >= max_failures =>
                 /\ deepseek_failures' = deepseek_failures
                 /\ \A t \in Tasks : task[t].pc # "deepseek" /\ task'[t].pc # "deepseek"
           /\ (gemini_failures >= max_failures /\ deepseek_failures >= max_failures) =>
                 /\ \A t \in Tasks : task'[t].pc = "idle"
                 /\ (last' # last /\ last'.moderated /\ last'.local[1]) =>
                       /\ last'.gemini = NotInvoked
                       /\ last'.deepseek = NotInvoked
                       /\ last'.ai_from = "unavailable"
                       /\ last'.ai = unavailable_result
      ]_vars

\* Both classifiers are at the threshold, a later call has returned the
\* unavailable result with neither invoked, and more than a day has passed
C30_Witness ==
    /\ gemini_failures = max_failures
    /\ deepseek_failures = max_failures
    /\ last.moderated /\ last.ai_from = "unavailable"
    /\ last.gemini = NotInvoked /\ last.deepseek = NotInvoked
    /\ now > hours24

----------------------------------------------------------------------------
(* Properties of the heuristic triggers, checked under SpecFilter *)

\* The number of uppercase characters of m
Uppercase(m) == Cardinality({i \in 1..Len(m) : m[i] \in UpperChars})

\* None of the rule checks (combinations, stop words, spam patterns) is
\* satisfied by m, so that check_triggers reaches the heuristic triggers
ReachesHeuristics(m) == \A c \in SatisfiedChecks(m) : c >= LengthCheck

\* C31: the heuristic triggers use strict thresholds: a message is flagged
\* for length iff it has more than 500 characters (exactly 500 passes), for
\* caps iff twice the number of uppercase characters exceeds its length (a
\* ratio of exactly 0.5 passes), the empty message is never flagged by a
\* heuristic, and the repetition trigger never fires.
C31_StrictThresholds ==
    /\ ~last.moderated =>
          /\ \A m \in FilterMessages \cup {<<>>} :
                /\ trigger_long(m) <=> Len(m) > 500
                /\ trigger_caps(m) <=> 2 * Uppercase(m) > Len(m)
                /\ ~trigger_repeat(m)
          /\ check_heuristics(<<>>) = <<FALSE, None>>
          /\ check_heuristics(FullText) = <<FALSE, None>>
          /\ check_heuristics(<<"O","k">>) = <<FALSE, None>>
    /\ (last.moderated /\ ReachesHeuristics(last.text)) =>
          /\ last.local[1] <=> (Len(last.text) > 500 \/ 2 * Uppercase(last.text) > Len(last.text))
          /\ last.local[1] =>
                /\ last.local[2][1] = "Moderation trigger: "
                /\ (last.local[2][2] = "long message") <=> (Len(last.text) > 500)
                /\ (last.local[2][2] = "caps") <=> (Len(last.text) <= 500)
                /\ last.local[2][2] # "repeated message"

\* A text with exactly half of its characters in capitals has passed the
\* local filter
C31_Witness ==
    /\ last.moderated
    /\ last.text = <<"O","k">>
    /\ last.local = <<FALSE, None>>
    /\ last.outcome = "answered"

----------------------------------------------------------------------------
(* Properties of the classifier calls, checked under SpecGateway *)

----------------------------------------------------------------------------
(* Properties of the answers, checked under SpecAnswers *)

\* C33: a user who is no administrator never receives an assistant answer,
\* fresh or from the response cache, for a message that check_triggers flags,
\* whoever was answered the same text or a variant of it before.
C33_AnsweredPassedFilter ==
    (/\ last.outcome \in {"answered", "cached"}
     /\ ~is_admin(last.user_id)) =>
        ~check_triggers(last.text)[1]

----------------------------------------------------------------------------
(* Properties of the response cache, checked under SpecCache *)

\* The entries of the dict c apart from the one at position i
EntriesBut(c, i) == {c[j] : j \in 1..Len(c) \ {i}}

\* C39: after any sequence of Cache.set, Cache.get and Cache.clear_expired
\* the cache holds at most max_size entries (one per key); Cache.get returns
\* a response only from an entry that is at most ttl seconds old, and an
\* older entry it deletes, returning None; a set into a full cache evicts an
\* entry with the oldest timestamp and nothing else.
C39_CacheBounded ==
    LET before == cache_call.before
        key == generate_key(cache_call.message)
        held == {i \in 1..Len(before) : before[i].key = key}
    IN  /\ Len(cache) <= CacheSize
        /\ \A i, j \in 1..Len(cache) : cache[i].key = cache[j].key => i = j
        /\ cache_call.op = "get" =>
              /\ cache_call.ret # None =>
                    \E i \in held :
                        /\ cache_call.at - before[i].timestamp <= CacheTtl
                        /\ cache_call.ret = before[i].response
                        /\ cache = before
              /\ \A i \in held :
                    cache_call.at - before[i].timestamp > CacheTtl =>
                        /\ cache_call.ret = None
                        /\ cache = del_entry(before, i)
              /\ held = {} => (cache_call.ret = None /\ cache = before)
        /\ (cache_call.op = "set" /\ Len(before) >= CacheSize) =>
              \E i \in 1..Len(before) :
                  /\ \A j \in 1..Len(before) : before[i].timestamp <= before[j].timestamp
                  /\ {cache[j] : j \in 1..Len(cache)} =
                        {e \in EntriesBut(before, i) : e.key # key}
                        \cup {[key |-> key, response |-> Response, timestamp |-> cache_call.at]}
        /\ cache_call.op = "clear_expired" =>
              {cache[j] : j \in 1..Len(cache)} =
                  {e \in EntriesBut(before, 0) : cache_call.at - e.timestamp <= CacheTtl}

\* A set of a new key into a full cache has evicted the oldest entry, which
\* was not the first of the dict
C39_Witness ==
    /\ cache_call.op = "set"
    /\ Len(cache_call.before) = CacheSize
    /\ \A i \in 1..Len(cache_call.before) :
          cache_call.before[i].key # generate_key(cache_call.message)
    /\ cache_call.before[1].timestamp > cache_call.before[2].timestamp
    /\ Len(cache) = CacheSize
    /\ cache[1] = cache_call.before[1]

----------------------------------------------------------------------------
(* Properties of enforcement under a ban, checked under SpecClassifiers *)

\* The stored ban of user u has not yet expired
BanActive(u) ==
    /\ users[u].exists
    /\ users[u].is_banned
    /\ (users[u].ban_until = Null \/ now <= users[u].ban_until)

----------------------------------------------------------------------------
(* Properties of the violation ledger, checked under SpecLedgerOps *)

\* C36: a failed add_violation leaves the persisted state unchanged: if the
\* call returns (False, 0), the user's violations_count, violations_expire_at
\* and log entries are what they were before the call, also when the prior
\* window had expired at the time of the call.
C36_FailedAddLeavesState ==
    \A u \in FrameSenders, committed \in BOOLEAN :
        LET r == add_violation_error(users, violations, u, committed)
        IN  r.ret = <<FALSE, 0>> =>
              /\ r.users[u] = users[u]
              /\ r.violations = violations

\* C37: whenever a user's violations_count is above 0 after the lazy expiry
\* check, the log holds at least one violation of that user, after any
\* sequence of add_violation, clear_expired_violations, clear_violations and
\* the cleaner's clean_old_violations.
C37_CountHasEntries ==
    \A u \in Users :
        LET row == clear_expired_violations(users, u).users[u]
        IN  (row.exists /\ row.violations_count > 0) => LogOf(violations, u) # <<>>

\* The cleaner has deleted an old entry of a user whose count is above 0
C37_Witness ==
    /\ last.outcome = "cleaned"
    /\ last.violations_count > 0
    /\ \E u \in FrameSenders :
          /\ users[u].exists
          /\ users[u].violations_count > 0
          /\ users[u].violations_expire_at # Null
          /\ now <= users[u].violations_expire_at
          /\ LogOf(violations, u) # <<>>

----------------------------------------------------------------------------
(* Properties of the end of a rate-limit block, checked under SpecLimiter *)

\* The instant a denial names: the reading of the clock plus time_to_reset
ResetAt(chk) == chk.checked_at + chk.time_to_reset

\* C38: a rate-limit denial never prolongs the block: when check_limit has
\* denied with time_to_reset = t, t is at most one interval, a check_limit
\* made t or more seconds later is allowed, and a further denial in the
\* meantime records nothing and names no later instant.
C38_DenialNeverProlongs ==
    /\ [](~last_check.allowed =>
            LET u == last_check.user_id
                tier == TierOf(last_check.user_type)
            IN  /\ last_check.time_to_reset >= 0
                /\ last_check.time_to_reset <= tier.interval
                /\ time >= ResetAt(last_check) =>
                      \A current_time \in ClockReads :
                          check_limit(requests, u, last_check.user_type,
                                      time, current_time).ret = <<TRUE, None>>)
    /\ [][ \A u \in Users :
              (Checked(u) /\ ~last_check.allowed /\ last_check.user_id = u) =>
                  /\ time >= ResetAt(last_check) => last_check'.allowed
                  /\ ~last_check'.allowed =>
                        /\ ResetAt(last_check') <= ResetAt(last_check)
                        /\ Len(requests'[u]) <= Len(requests[u]) ]_vars

\* A user turned away twice inside the window is let through at the instant
\* the first denial named
C38_Witness ==
    /\ last_check.allowed
    /\ last_check.user_id \in Users
    /\ limiter_violations[last_check.user_id] = MaxDenials
    /\ last_check.cleaned_at = limits.default.interval
    /\ last_check.retained < limits.default.requests

----------------------------------------------------------------------------
(* Properties of the failure counters with several handlers, checked under  *)
(* SpecLoop                                                                 *)

====
